---- MODULE Spec2Model ----
(***************************************************************************)
(* Edust: a JIT compiler for a small imperative language.                  *)
(* The module models the lexer (lexer.rs), the parser (parser.rs), the AST  *)
(* (ast.rs), the semantic analyzer (semantic.rs), the code generator       *)
(* (codegen.rs) together with the execution of the code it generates, and  *)
(* the pipeline that runs them in a row (lib.rs).                          *)
(***************************************************************************)
EXTENDS Integers, Sequences, FiniteSets, TLC

VARIABLES program, pc, an, cg, stack, output, result,
          source, lexer, tokens, error, jit, returned

vars == <<program, pc, an, cg, stack, output, result,
          source, lexer, tokens, error, jit, returned>>

(***************************************************************************)
(* Bounds of the model.                                                    *)
(***************************************************************************)
\* number of statements of a generated top-level function body
MaxStmts == 2
\* width of the machine integers of the model (the program uses 64)
WordBits == 5
\* largest loop bound n of the summing loop family
MaxN == 5
\* deepest call stack of the generated code
MaxDepth == 3

(***************************************************************************)
(* ast.rs: the abstract syntax tree.  A Block is the sequence of its       *)
(* statements, an Option<Block> is <<>> (None) or <<block>> (Some).        *)
(***************************************************************************)
Number(n) == [kind |-> "Number", n |-> n]
Variable(name) == [kind |-> "Variable", name |-> name]
Binary(op, left, right) == [kind |-> "Binary", op |-> op, left |-> left, right |-> right]
Unary(op, operand) == [kind |-> "Unary", op |-> op, operand |-> operand]
Call(name, args) == [kind |-> "Call", name |-> name, args |-> args]

VarDecl(name, value) == [kind |-> "VarDecl", name |-> name, value |-> value]
Assignment(name, value) == [kind |-> "Assignment", name |-> name, value |-> value]
If(condition, then_block, else_block) ==
    [kind |-> "If", condition |-> condition, then_block |-> then_block,
     else_block |-> else_block]
While(condition, body) == [kind |-> "While", condition |-> condition, body |-> body]
Return(value) == [kind |-> "Return", value |-> value]
ExprStmt(expr) == [kind |-> "ExprStmt", expr |-> expr]

Function(name, params, body) == [name |-> name, params |-> params, body |-> body]

ArithOps == {"Add", "Sub", "Mul", "Div", "Mod"}
CompareOps == {"Lt", "Le", "Gt", "Ge", "Eq", "Ne"}
LogicOps == {"And", "Or"}
BinOp == ArithOps \cup CompareOps \cup LogicOps
UnaryOp == {"Neg", "Not"}

(***************************************************************************)
(* lib.rs, lexer.rs, token.rs: what compile_and_run holds before the       *)
(* semantic analyzer runs.  A source is the sequence of its characters, a  *)
(* character a string (a code point outside ASCII is written "U+hhhh").    *)
(***************************************************************************)
\* Lexer::new(input)
Lexer_new == [position |-> 0, line |-> 1, column |-> 1, start |-> 0]

\* Ok(..) of a stage, where `error` holds the Err(String) of a stage
NoError == [msg |-> "", line |-> 0, column |-> 0]

\* format!("{prefix}{e}") of a stage's error e, kept as its two parts
StageError(prefix, e) == [prefix |-> prefix, error |-> e]

\* compile_and_run has not returned
NotReturned ==
    [done |-> FALSE, ok |-> FALSE, value |-> 0, msg |-> StageError("", NoError)]

(***************************************************************************)
(* semantic.rs: SemanticAnalyzer.  `functions` maps a function name to its *)
(* param_count; `scopes` is the stack of scopes, each the set of the names *)
(* it declares.  A Result<(), String> is an error record, NoErr for Ok(()).*)
(***************************************************************************)
NoErr == [kind |-> "", name |-> ""]
Err(kind, name) == [kind |-> kind, name |-> name]

enter_scope(scopes) == Append(scopes, {})

\* mutant: the scope is left on the stack
exit_scope_keep(scopes) == scopes

exit_scope(scopes) == SubSeq(scopes, 1, Len(scopes) - 1)

current_scope(scopes) == scopes[Len(scopes)]

declare_variable(scopes, name) == [scopes EXCEPT ![Len(scopes)] = @ \cup {name}]

\* mutant: every name counts as declared
is_variable_declared_always(scopes, name) == TRUE

is_variable_declared(scopes, name) == \E i \in DOMAIN scopes : name \in scopes[i]

\* the builtin test of the Call arm
is_builtin_print(name) == name = "print"

\* mutant: the argument count is not compared
arity_unchecked(args, param_count) == TRUE

\* the arity test of the Call arm
arity_matches(args, param_count) == Len(args) = param_count

RECURSIVE analyze_expr(_, _, _)
RECURSIVE analyze_args(_, _, _, _)
analyze_expr(functions, scopes, expr) ==
    CASE expr.kind = "Number" -> NoErr
      [] expr.kind = "Variable" ->
            IF ~is_variable_declared(scopes, expr.name)
            THEN Err("Undefined variable", expr.name)
            ELSE NoErr
      [] expr.kind = "Binary" ->
            LET l == analyze_expr(functions, scopes, expr.left)
            IN  IF l # NoErr THEN l ELSE analyze_expr(functions, scopes, expr.right)
      [] expr.kind = "Unary" -> analyze_expr(functions, scopes, expr.operand)
      [] expr.kind = "Call" ->
            IF is_builtin_print(expr.name)
            THEN IF Len(expr.args) # 1
                 THEN Err("print() requires exactly 1 argument", "")
                 ELSE analyze_expr(functions, scopes, expr.args[1])
            ELSE IF expr.name \notin DOMAIN functions
                 THEN Err("Undefined function", expr.name)
                 ELSE IF ~arity_matches(expr.args, functions[expr.name])
                      THEN Err("Function expects a different number of arguments", expr.name)
                      ELSE analyze_args(functions, scopes, expr.args, 1)

\* the loop `for arg in args { self.analyze_expr(arg)?; }`
analyze_args(functions, scopes, args, i) ==
    IF i > Len(args) THEN NoErr
    ELSE LET r == analyze_expr(functions, scopes, args[i])
         IN  IF r # NoErr THEN r ELSE analyze_args(functions, scopes, args, i + 1)

\* the state the statement walk threads: the scope stack and the first error
AnState(scopes, err) == [scopes |-> scopes, err |-> err]

\* mutant: the redeclaration test looks at every scope of the stack
declare_checked_any_scope(scopes, name) ==
    IF is_variable_declared(scopes, name)
    THEN AnState(scopes, Err("Variable already declared in this scope", name))
    ELSE AnState(declare_variable(scopes, name), NoErr)

\* VarDecl arm after the initializer was accepted
declare_checked(scopes, name) ==
    IF name \in current_scope(scopes)
    THEN AnState(scopes, Err("Variable already declared in this scope", name))
    ELSE AnState(declare_variable(scopes, name), NoErr)

\* Assignment arm after the value was accepted
assign_checked(scopes, name) ==
    IF ~is_variable_declared(scopes, name)
    THEN AnState(scopes, Err("Undefined variable", name))
    ELSE AnState(scopes, NoErr)

RECURSIVE analyze_statement(_, _, _)
RECURSIVE analyze_block(_, _, _, _)
analyze_statement(functions, scopes, stmt) ==
    CASE stmt.kind = "VarDecl" ->
            LET r == analyze_expr(functions, scopes, stmt.value)
            IN  IF r # NoErr THEN AnState(scopes, r)
                ELSE declare_checked(scopes, stmt.name)
      [] stmt.kind = "Assignment" ->
            LET r == analyze_expr(functions, scopes, stmt.value)
            IN  IF r # NoErr THEN AnState(scopes, r)
                ELSE assign_checked(scopes, stmt.name)
      [] stmt.kind = "If" ->
            LET r == analyze_expr(functions, scopes, stmt.condition)
            IN  IF r # NoErr THEN AnState(scopes, r)
                ELSE LET t == analyze_block(functions, enter_scope(scopes),
                                            stmt.then_block, 1)
                     IN  IF t.err # NoErr THEN t
                         ELSE LET s1 == exit_scope(t.scopes)
                              IN  IF stmt.else_block = <<>> THEN AnState(s1, NoErr)
                                  ELSE LET e == analyze_block(functions, enter_scope(s1),
                                                              stmt.else_block[1], 1)
                                       IN  IF e.err # NoErr THEN e
                                           ELSE AnState(exit_scope(e.scopes), NoErr)
      [] stmt.kind = "While" ->
            LET r == analyze_expr(functions, scopes, stmt.condition)
            IN  IF r # NoErr THEN AnState(scopes, r)
                ELSE LET b == analyze_block(functions, enter_scope(scopes), stmt.body, 1)
                     IN  IF b.err # NoErr THEN b
                         ELSE AnState(exit_scope(b.scopes), NoErr)
      [] stmt.kind = "Return" ->
            AnState(scopes, analyze_expr(functions, scopes, stmt.value))
      [] stmt.kind = "ExprStmt" ->
            AnState(scopes, analyze_expr(functions, scopes, stmt.expr))

\* the loop `for stmt in &block.statements { self.analyze_statement(stmt)?; }`
analyze_block(functions, scopes, block, i) ==
    IF i > Len(block) THEN AnState(scopes, NoErr)
    ELSE LET r == analyze_statement(functions, scopes, block[i])
         IN  IF r.err # NoErr THEN r
             ELSE analyze_block(functions, r.scopes, block, i + 1)

\* the loop over func.params of analyze_function
RECURSIVE declare_params(_, _, _)
declare_params(scopes, params, i) ==
    IF i > Len(params) THEN AnState(scopes, NoErr)
    ELSE IF params[i] \in current_scope(scopes)
         THEN AnState(scopes, Err("Duplicate parameter name", params[i]))
         ELSE declare_params(declare_variable(scopes, params[i]), params, i + 1)

analyze_function(functions, scopes, func) ==
    LET p == declare_params(enter_scope(scopes), func.params, 1)
    IN  IF p.err # NoErr THEN p
        ELSE LET b == analyze_block(functions, p.scopes, func.body, 1)
             IN  IF b.err # NoErr THEN b
                 ELSE AnState(exit_scope(b.scopes), NoErr)

\* mutant: the parameter count of main is not checked
check_main_any_arity(functions) ==
    IF "main" \notin DOMAIN functions THEN Err("No main function found", "")
    ELSE NoErr

\* the checks on `main` that follow the first pass of analyze
check_main(functions) ==
    IF "main" \notin DOMAIN functions THEN Err("No main function found", "")
    ELSE IF functions["main"] # 0
         THEN Err("main function must have no parameters", "")
         ELSE NoErr

\* HashMap::insert
insert(map, key, value) ==
    [k \in DOMAIN map \cup {key} |-> IF k = key THEN value ELSE map[k]]

EmptyMap == [k \in {} |-> 0]


(***************************************************************************)
(* The programs the analyzer is run on.                                    *)
(***************************************************************************)
\* number of functions of a program of the signature family
MaxFuncs == 3

SeqsUpTo(S, n) == UNION {[1..k -> S] : k \in 0..n}

\* scope family: declarations, reads and assignments of x in nested blocks
SimpleStmts ==
    {VarDecl("x", Number(1)), VarDecl("x", Variable("x")),
     Assignment("x", Number(1)), Return(Variable("x"))}
InnerBlocks == {<<s>> : s \in SimpleStmts}
ElseBlocks ==
    {<<>>, << <<VarDecl("x", Number(1))>> >>, << <<Assignment("x", Number(1))>> >>}
ScopeStmts ==
    SimpleStmts
    \cup {If(Number(1), t, e) : t \in InnerBlocks, e \in ElseBlocks}
    \cup {While(Number(1), b) : b \in InnerBlocks}
ScopeBodies == SeqsUpTo(ScopeStmts, MaxStmts)
ScopePrograms ==
    {<<Function("main", <<>>, b)>> : b \in ScopeBodies}
    \cup {<<Function("f", <<"x">>, b), Function("main", <<>>, <<>>)>> : b \in ScopeBodies}
    \cup {<<Function("f", <<>>, b1), Function("main", <<>>, b2)>> :
             b1 \in SeqsUpTo(SimpleStmts, 1), b2 \in SeqsUpTo(ScopeStmts, 1)}
    \cup {<<Function("f", <<"x", "x">>, <<>>), Function("main", <<>>, <<>>)>>}

\* signature family: names and parameter counts, with and without a body error
SigFunctions ==
    {Function(n, p, b) :
        n \in {"main", "f"}, p \in {<<>>, <<"x">>},
        b \in {<<>>, <<ExprStmt(Variable("u"))>>}}
SigPrograms == SeqsUpTo(SigFunctions, MaxFuncs)

\* call family: one call, in several positions, against several sets of functions
ArgAtoms == {Number(1), Variable("u"), Call("g", <<>>), Call("f", <<Number(1)>>)}
Calls == {Call(n, a) : n \in {"print", "f", "g", "main"}, a \in SeqsUpTo(ArgAtoms, 2)}
CallBodies ==
    UNION {{<<ExprStmt(c)>>, <<If(c, <<>>, <<>>)>>,
            <<Return(Binary("Add", c, Number(1)))>>,
            <<VarDecl("x", Unary("Neg", c))>>} : c \in Calls}
CallPrograms ==
    UNION {{<<Function("main", <<>>, b)>>,
            <<Function("f", <<>>, <<>>), Function("main", <<>>, b)>>,
            <<Function("f", <<"a">>, <<>>), Function("main", <<>>, b)>>,
            <<Function("f", <<"a", "b">>, <<>>), Function("main", <<>>, b)>>,
            <<Function("main", <<>>, b), Function("f", <<"a">>, <<>>)>>,
            <<Function("print", <<"a", "b">>, <<>>), Function("f", <<"a">>, <<>>),
              Function("main", <<>>, b)>>} : b \in CallBodies}

SemPrograms == ScopePrograms \cup SigPrograms \cup CallPrograms

(***************************************************************************)
(* SemanticAnalyzer::new and the steps of SemanticAnalyzer::analyze.       *)
(***************************************************************************)
AnNew ==
    [functions |-> EmptyMap, scopes |-> <<{}>>, i |-> 1, err |-> NoErr, bodies |-> 0]

\* a Signature: the numbers of its params and of its returns, all i64
Signature(params, returns) == [params |-> params, returns |-> returns]

\* signature.returns.push(i64) and param_count times signature.params.push(i64)
push_signature(sig, param_count) ==
    Signature(sig.params + param_count, sig.returns + 1)

\* mutant: the signature is left as it is for the next function
clear_signature_keep(sig) == sig

\* signature.params.clear(); signature.returns.clear()
clear_signature(sig) == Signature(0, 0)

\* `signature` is self.ctx.func.signature; `signatures` is the module's
\* declarations: the signature each FuncId was declared with
CgIdle ==
    [functions |-> EmptyMap, signature |-> Signature(0, 0), signatures |-> <<>>,
     module |-> <<>>, i |-> 1]

InitSem ==
    /\ program \in SemPrograms
    /\ pc = "collect"
    /\ an = AnNew
    /\ cg = CgIdle
    /\ stack = <<>>
    /\ output = <<>>
    /\ result = 0
    /\ source = <<>>
    /\ lexer = Lexer_new
    /\ tokens = <<>>
    /\ error = NoError
    /\ jit = "none"
    /\ returned = NotReturned

\* one iteration of the first pass: collect a function signature
CollectSignature ==
    /\ pc = "collect"
    /\ an.i <= Len(program)
    /\ LET func == program[an.i]
       IN  IF func.name \in DOMAIN an.functions
           THEN /\ an' = [an EXCEPT !.err = Err("Duplicate function definition", func.name)]
                /\ pc' = "sem_err"
           ELSE /\ an' = [an EXCEPT !.functions = insert(@, func.name, Len(func.params)),
                                    !.i = @ + 1]
                /\ pc' = pc
    /\ UNCHANGED <<program, cg, stack, output, result>>
    /\ UNCHANGED <<source, lexer, tokens, error, jit, returned>>

\* after the first pass: the checks on main
CheckMain ==
    /\ pc = "collect"
    /\ an.i > Len(program)
    /\ LET r == check_main(an.functions)
       IN  IF r # NoErr
           THEN /\ an' = [an EXCEPT !.err = r]
                /\ pc' = "sem_err"
           ELSE /\ an' = [an EXCEPT !.i = 1]
                /\ pc' = "bodies"
    /\ UNCHANGED <<program, cg, stack, output, result>>
    /\ UNCHANGED <<source, lexer, tokens, error, jit, returned>>

\* one iteration of the second pass: analyze a function body
AnalyzeFunction ==
    /\ pc = "bodies"
    /\ an.i <= Len(program)
    /\ LET r == analyze_function(an.functions, an.scopes, program[an.i])
       IN  /\ an' = [an EXCEPT !.scopes = r.scopes, !.err = r.err,
                               !.i = IF r.err = NoErr THEN @ + 1 ELSE @,
                               !.bodies = @ + 1]
           /\ pc' = IF r.err = NoErr THEN pc ELSE "sem_err"
    /\ UNCHANGED <<program, cg, stack, output, result>>
    /\ UNCHANGED <<source, lexer, tokens, error, jit, returned>>

\* the second pass is over: Ok(())
AnalyzeOk ==
    /\ pc = "bodies"
    /\ an.i > Len(program)
    /\ pc' = "sem_ok"
    /\ UNCHANGED <<program, an, cg, stack, output, result>>
    /\ UNCHANGED <<source, lexer, tokens, error, jit, returned>>

NextSem == CollectSignature \/ CheckMain \/ AnalyzeFunction \/ AnalyzeOk

SpecSem == InitSem /\ [][NextSem]_vars


(***************************************************************************)
(* Lexical-scope vocabulary the claims about the analyzer are stated in.   *)
(* It is defined on the AST alone: a name is visible at a statement when a *)
(* parameter or an earlier `let` of the same block or of an enclosing      *)
(* block declares it.                                                      *)
(***************************************************************************)
SemFinished == pc \in {"sem_ok", "sem_err"}

RECURSIVE ExprVars(_)
RECURSIVE ArgsVars(_, _)
ExprVars(e) ==
    CASE e.kind = "Number" -> {}
      [] e.kind = "Variable" -> {e.name}
      [] e.kind = "Binary" -> ExprVars(e.left) \cup ExprVars(e.right)
      [] e.kind = "Unary" -> ExprVars(e.operand)
      [] e.kind = "Call" -> ArgsVars(e.args, 1)
ArgsVars(args, i) ==
    IF i > Len(args) THEN {} ELSE ExprVars(args[i]) \cup ArgsVars(args, i + 1)

RECURSIVE ExprCalls(_)
RECURSIVE ArgsCalls(_, _)
ExprCalls(e) ==
    CASE e.kind = "Number" -> {}
      [] e.kind = "Variable" -> {}
      [] e.kind = "Binary" -> ExprCalls(e.left) \cup ExprCalls(e.right)
      [] e.kind = "Unary" -> ExprCalls(e.operand)
      [] e.kind = "Call" -> {e} \cup ArgsCalls(e.args, 1)
ArgsCalls(args, i) ==
    IF i > Len(args) THEN {} ELSE ExprCalls(args[i]) \cup ArgsCalls(args, i + 1)

\* the expressions a statement evaluates itself (not those of nested blocks)
StmtExprs(s) ==
    CASE s.kind \in {"VarDecl", "Assignment", "Return"} -> {s.value}
      [] s.kind \in {"If", "While"} -> {s.condition}
      [] s.kind = "ExprStmt" -> {s.expr}

\* the blocks nested directly in a statement
StmtBlocks(s) ==
    CASE s.kind = "If" ->
            {s.then_block} \cup (IF s.else_block = <<>> THEN {} ELSE {s.else_block[1]})
      [] s.kind = "While" -> {s.body}
      [] OTHER -> {}

\* some statement of block[i..] reads or assigns a name that is not visible
RECURSIVE BlockUndefined(_, _, _)
BlockUndefined(block, i, visible) ==
    /\ i <= Len(block)
    /\ LET s == block[i]
       IN  \/ \E e \in StmtExprs(s) : ~(ExprVars(e) \subseteq visible)
           \/ s.kind = "Assignment" /\ s.name \notin visible
           \/ \E b \in StmtBlocks(s) : BlockUndefined(b, 1, visible)
           \/ BlockUndefined(block, i + 1,
                             IF s.kind = "VarDecl" THEN visible \cup {s.name} ELSE visible)

ParamSet(f) == {f.params[i] : i \in DOMAIN f.params}

HasUndefinedUse(prog) ==
    \E k \in DOMAIN prog : BlockUndefined(prog[k].body, 1, ParamSet(prog[k]))

\* some `let` of block[i..], or of a block nested in it, redeclares a name of
\* its own block; `here` are the names the block has declared so far
RECURSIVE BlockRedeclares(_, _, _)
BlockRedeclares(block, i, here) ==
    /\ i <= Len(block)
    /\ LET s == block[i]
       IN  \/ s.kind = "VarDecl" /\ s.name \in here
           \/ \E b \in StmtBlocks(s) : BlockRedeclares(b, 1, {})
           \/ BlockRedeclares(block, i + 1,
                              IF s.kind = "VarDecl" THEN here \cup {s.name} ELSE here)

HasRedeclaration(prog) ==
    \E k \in DOMAIN prog : BlockRedeclares(prog[k].body, 1, ParamSet(prog[k]))

\* some `let` in a nested block declares a name an enclosing block declared
RECURSIVE BlockShadows(_, _, _)
BlockShadows(block, i, outer) ==
    /\ i <= Len(block)
    /\ LET s == block[i]
       IN  \/ \E b \in StmtBlocks(s) :
                 \/ \E j \in DOMAIN b : b[j].kind = "VarDecl" /\ b[j].name \in outer
                 \/ BlockShadows(b, 1, outer)
           \/ BlockShadows(block, i + 1,
                           IF s.kind = "VarDecl" THEN outer \cup {s.name} ELSE outer)

HasShadowing(prog) ==
    \E k \in DOMAIN prog : BlockShadows(prog[k].body, 1, ParamSet(prog[k]))

RECURSIVE BlockCalls(_, _)
BlockCalls(block, i) ==
    IF i > Len(block) THEN {}
    ELSE UNION {ExprCalls(e) : e \in StmtExprs(block[i])}
         \cup UNION {BlockCalls(b, 1) : b \in StmtBlocks(block[i])}
         \cup BlockCalls(block, i + 1)

AllCalls(prog) == UNION {BlockCalls(prog[k].body, 1) : k \in DOMAIN prog}

DistinctNames(prog) ==
    \A i, j \in DOMAIN prog : i # j => prog[i].name # prog[j].name

HasMain0(prog) == \E i \in DOMAIN prog : prog[i].name = "main" /\ prog[i].params = <<>>

DuplicateParams(prog) ==
    \E k \in DOMAIN prog : \E i, j \in DOMAIN prog[k].params :
        i # j /\ prog[k].params[i] = prog[k].params[j]

CallAllowed(c, prog) ==
    \/ c.name = "print" /\ Len(c.args) = 1
    \/ \E k \in DOMAIN prog : prog[k].name = c.name /\ Len(prog[k].params) = Len(c.args)

HasBadCall(prog) ==
    \E c \in AllCalls(prog) : ~CallAllowed(c, prog) \/ (c.name = "print" /\ Len(c.args) # 1)

SignatureDefect(prog) == ~DistinctNames(prog) \/ ~HasMain0(prog)


NoDefect(prog) ==
    /\ ~SignatureDefect(prog)
    /\ ~DuplicateParams(prog)
    /\ ~HasUndefinedUse(prog)
    /\ ~HasRedeclaration(prog)
    /\ ~HasBadCall(prog)

RECURSIVE BlockDecls(_, _)
BlockDecls(block, i) ==
    IF i > Len(block) THEN {}
    ELSE (IF block[i].kind = "VarDecl" THEN {block[i].name} ELSE {})
         \cup UNION {BlockDecls(b, 1) : b \in StmtBlocks(block[i])}
         \cup BlockDecls(block, i + 1)

\* every name some parameter or `let` of the program declares
DeclaredNames(prog) ==
    UNION {ParamSet(prog[k]) \cup BlockDecls(prog[k].body, 1) : k \in DOMAIN prog}

AlreadyDeclared == "Variable already declared in this scope"

SelfInitProgram == <<Function("main", <<>>, <<VarDecl("x", Variable("x"))>>)>>

(***************************************************************************)
(* C6: analyze rejects a `let` whose name its own block (or, at the top of *)
(* a function body, a parameter) already declares, accepts a `let` whose   *)
(* name only an enclosing block declares, and validates the initializer    *)
(* before the name is declared, so `let x = x;` with no outer x is an      *)
(* undefined variable.                                                     *)
(***************************************************************************)
C6_SameScopeRedeclaration ==
    SemFinished =>
        /\ pc = "sem_ok" => ~HasRedeclaration(program)
        /\ an.err.kind = AlreadyDeclared => HasRedeclaration(program)
        /\ ( /\ HasRedeclaration(program)
             /\ ~SignatureDefect(program) /\ ~DuplicateParams(program)
             /\ ~HasUndefinedUse(program) /\ ~HasBadCall(program) )
           => an.err.kind = AlreadyDeclared
        /\ (HasShadowing(program) /\ NoDefect(program)) => pc = "sem_ok"
        /\ program = SelfInitProgram => an.err = Err("Undefined variable", "x")

\* a function body redeclares its parameter x and is rejected for it
C6_Witness ==
    /\ pc = "sem_err"
    /\ an.err = Err(AlreadyDeclared, "x")
    /\ program[1].params = <<"x">>
    /\ program[1].body = <<VarDecl("x", Number(1))>>

(***************************************************************************)
(* C7: analyze succeeds only if the function names are pairwise distinct   *)
(* and a function main with no parameters exists; a duplicate name fails   *)
(* with `Duplicate function definition`, a missing main or a main with     *)
(* parameters fails, and these failures come before any body is checked.   *)
(***************************************************************************)
C7_SignatureGate ==
    SemFinished =>
        /\ pc = "sem_ok" => (DistinctNames(program) /\ HasMain0(program))
        /\ ~DistinctNames(program) =>
              (an.err.kind = "Duplicate function definition" /\ an.bodies = 0)
        /\ (DistinctNames(program) /\ ~HasMain0(program)) =>
              /\ an.err.kind \in {"No main function found",
                                  "main function must have no parameters"}
              /\ an.bodies = 0

\* main has a parameter: rejected although a body holds an error of its own
C7_Witness ==
    /\ pc = "sem_err"
    /\ an.err.kind = "main function must have no parameters"
    /\ an.bodies = 0
    /\ \E k \in DOMAIN program : program[k].body # <<>>

(***************************************************************************)
(* C8: analyze rejects the program unless every Call in it is either       *)
(* print with exactly one argument or names a function defined somewhere   *)
(* in the program with as many parameters as the call has arguments; the   *)
(* arguments of an accepted call are validated themselves.                 *)
(***************************************************************************)
C8_CallGate ==
    pc = "sem_ok" =>
        \A c \in AllCalls(program) :
            /\ CallAllowed(c, program)
            /\ \A i \in DOMAIN c.args : ExprVars(c.args[i]) \subseteq DeclaredNames(program)

\* an accepted call of f, defined after its caller, with a call as argument
C8_Witness ==
    /\ pc = "sem_ok"
    /\ Len(program) = 2
    /\ program[1].name = "main"
    /\ \E c \in AllCalls(program) :
          c.name = "f" /\ Len(c.args) = 1 /\ c.args[1].kind = "Call"

(***************************************************************************)
(* C9: analyze rejects with `Undefined variable` every read of and every   *)
(* assignment to a name no scope on the stack declares: a name declared in *)
(* an if, else or while block (or in another function) is not visible      *)
(* after it, and the then- and else-block of an If have separate scopes.   *)
(***************************************************************************)
C9_UndefinedVariable ==
    SemFinished =>
        /\ pc = "sem_ok" => ~HasUndefinedUse(program)
        /\ an.err.kind = "Undefined variable" => HasUndefinedUse(program)
        /\ ( /\ HasUndefinedUse(program)
             /\ ~SignatureDefect(program) /\ ~DuplicateParams(program)
             /\ ~HasRedeclaration(program) /\ ~HasBadCall(program) )
           => an.err.kind = "Undefined variable"

\* x is declared in the then-block and assigned in the else-block
C9_Witness ==
    /\ pc = "sem_err"
    /\ an.err = Err("Undefined variable", "x")
    /\ program = <<Function("main", <<>>,
                     <<If(Number(1), <<VarDecl("x", Number(1))>>,
                          << <<Assignment("x", Number(1))>> >>)>>)>>


(***************************************************************************)
(* codegen.rs: CodeGenerator.  The record g threads the generator (self:   *)
(* functions, variables, variable_counter) and the FunctionBuilder of the  *)
(* function being built: its blocks (block b is blocks[b], the sequence of *)
(* its instructions), the current block, the number of Values handed out,  *)
(* the blocks sealed so far (in order), and the loops lowered so far.      *)
(* g.events is the sequence of the calls made on the builder that switch   *)
(* to a block, seal a block or append an instruction to the current block. *)
(* g.val is the Value compile_expr returns, g.ret the Option<Value> that   *)
(* compile_statement and compile_block return (0 is None), g.panic is set  *)
(* when an unwrap() meets None.                                            *)
(*                                                                         *)
(* def_var and use_var are the frontend's accesses to a Variable.  The     *)
(* frontend turns them into SSA values with block parameters; with every   *)
(* block sealed after its last predecessor that is the value last defined  *)
(* on the path taken, and 0 for a Variable no def_var on the path defines. *)
(* They are kept as instructions that store to and load from the Variable. *)
(***************************************************************************)
Ins(op, dst, args, imm, cc, to) ==
    [op |-> op, dst |-> dst, args |-> args, imm |-> imm, cc |-> cc, to |-> to]

\* builder.create_block(): the new block is Len(blocks) + 1
create_block(g) == [g EXCEPT !.blocks = Append(@, <<>>)]

\* a call on the builder: "switch", "seal" or "ins", the block it is about,
\* and the opcode and the branch targets of an instruction
Event(ev, block, op, to) == [ev |-> ev, block |-> block, op |-> op, to |-> to]

switch_to_block(g, b) ==
    [g EXCEPT !.cur = b, !.events = Append(@, Event("switch", b, "", <<>>))]

seal_block(g, b) ==
    [g EXCEPT !.sealed = Append(@, b), !.events = Append(@, Event("seal", b, "", <<>>))]

\* builder.ins().<op>(..) of an instruction without a result
ins(g, op, args, to) ==
    [g EXCEPT !.blocks[g.cur] = Append(@, Ins(op, 0, args, 0, "", to)),
              !.events = Append(@, Event("ins", g.cur, op, to))]

\* builder.ins().<op>(..) of an instruction with one result Value
ins_val(g, op, args, imm, cc) ==
    LET v == g.nvals + 1
    IN  [g EXCEPT !.blocks[g.cur] = Append(@, Ins(op, v, args, imm, cc, <<>>)),
                  !.nvals = v, !.val = v,
                  !.events = Append(@, Event("ins", g.cur, op, <<>>))]

\* builder.def_var(var, val)
def_var(g, var, val) ==
    [g EXCEPT !.blocks[g.cur] = Append(@, Ins("def_var", 0, <<val>>, var, "", <<>>))]

\* Variable::new(self.variable_counter); counter += 1; variables.insert(name, var)
new_variable(g, name) ==
    [g EXCEPT !.variables = insert(@, name, g.variable_counter),
              !.variable_counter = @ + 1]

arith_ins(op) ==
    CASE op = "Add" -> "iadd" [] op = "Sub" -> "isub" [] op = "Mul" -> "imul"
      [] op = "Div" -> "sdiv" [] op = "Mod" -> "srem"

\* mutant: the ordering comparisons use the unsigned condition codes
IntCC_unsigned(op) ==
    CASE op = "Lt" -> "UnsignedLessThan" [] op = "Le" -> "UnsignedLessThanOrEqual"
      [] op = "Gt" -> "UnsignedGreaterThan" [] op = "Ge" -> "UnsignedGreaterThanOrEqual"
      [] op = "Eq" -> "Equal" [] op = "Ne" -> "NotEqual"

IntCC(op) ==
    CASE op = "Lt" -> "SignedLessThan" [] op = "Le" -> "SignedLessThanOrEqual"
      [] op = "Gt" -> "SignedGreaterThan" [] op = "Ge" -> "SignedGreaterThanOrEqual"
      [] op = "Eq" -> "Equal" [] op = "Ne" -> "NotEqual"

\* mutant: the operand of a logical operator is used as it is
operand_bool_raw(g, v) == [g EXCEPT !.val = v]

\* icmp_imm(IntCC::NotEqual, v, 0): the operand of && and || as a boolean
operand_bool(g, v) == ins_val(g, "icmp_imm", <<v>>, 0, "NotEqual")

\* bint of the flag Value the builder g produced last
bint(g) == ins_val(g, "bint", <<g.val>>, 0, "")

\* band / bor of the two operand booleans, then bint
logical_ins(lhs_bool, rhs_bool, op) ==
    bint(ins_val(rhs_bool, IF op = "And" THEN "band" ELSE "bor",
                 <<lhs_bool.val, rhs_bool.val>>, 0, ""))

\* the second operand of a logical operator, after the first one's boolean
logical_rhs(lhs_bool, op, rhs) ==
    logical_ins(lhs_bool, operand_bool(lhs_bool, rhs), op)

\* the arms of `match op` of a Binary, on the operand Values lhs and rhs
binary_ins(g, op, lhs, rhs) ==
    IF op \in ArithOps THEN ins_val(g, arith_ins(op), <<lhs, rhs>>, 0, "")
    ELSE IF op \in CompareOps
    THEN bint(ins_val(g, "icmp", <<lhs, rhs>>, 0, IntCC(op)))
    ELSE logical_rhs(operand_bool(g, lhs), op, rhs)

\* the arms of `match op` of a Unary, on the operand Value val
unary_ins(g, op, val) ==
    IF op = "Neg" THEN ins_val(g, "ineg", <<val>>, 0, "")
    ELSE bint(ins_val(g, "icmp_imm", <<val>>, 0, "Equal"))

RECURSIVE compile_expr(_, _)
RECURSIVE compile_args(_, _, _, _)

\* Binary: the instruction on the Values of l (left compiled) and r (right
\* compiled after it)
binary_arm(l, r, op) == binary_ins(r, op, l.val, r.val)

\* mutant: the right operand is not lowered, the left Value stands for it
binary_right_dropped(l, expr) == binary_arm(l, l, expr.op)

\* Binary: `let rhs = self.compile_expr(builder, right)?` after the left side
binary_right(l, expr) == binary_arm(l, compile_expr(l, expr.right), expr.op)

\* Unary: the instruction on the Value of the compiled operand
unary_arm(v, op) == unary_ins(v, op, v.val)

\* compile_print_call: module.declare_function("print_int", Import, sig) with
\* a signature of one parameter, and the call of the FuncId it returns with
\* the argument's Value.  The module keeps one declaration per name: a name
\* already declared (by the first pass of compile) yields that FuncId, and
\* Err(IncompatibleSignature) when it was declared with another signature.
compile_print_call(v) ==
    IF "print_int" \notin DOMAIN v.functions
    THEN ins_val(v, "call", <<v.val>>, 0, "print_int")
    ELSE IF v.signatures[v.functions["print_int"]] = Signature(1, 1)
    THEN ins_val(v, "call", <<v.val>>, v.functions["print_int"], "")
    ELSE [v EXCEPT !.err = "IncompatibleSignature: print_int", !.val = 0]

\* Call: builder.ins().call(local_callee, &arg_values) and its first result
call_arm(a, callee) == ins_val(a.g, "call", a.arg_values, callee, "")

compile_expr(g, expr) ==
    CASE expr.kind = "Number" -> ins_val(g, "iconst", <<>>, expr.n, "")
      [] expr.kind = "Variable" ->
            IF expr.name \notin DOMAIN g.variables
            THEN [g EXCEPT !.panic = TRUE, !.val = 0]
            ELSE ins_val(g, "use_var", <<>>, g.variables[expr.name], "")
      [] expr.kind = "Binary" -> binary_right(compile_expr(g, expr.left), expr)
      [] expr.kind = "Unary" -> unary_arm(compile_expr(g, expr.operand), expr.op)
      [] expr.kind = "Call" ->
            IF expr.name = "print"
            THEN compile_print_call(compile_expr(g, expr.args[1]))
            ELSE IF expr.name \notin DOMAIN g.functions
            THEN [g EXCEPT !.panic = TRUE, !.val = 0]
            ELSE call_arm(compile_args(g, expr.args, 1, <<>>),
                          g.functions[expr.name])

\* arg_values.push(..) of the Value of the argument compiled into v
push_arg(v, args, i, arg_values) ==
    compile_args(v, args, i + 1, Append(arg_values, v.val))

\* the loop `for arg in args { arg_values.push(self.compile_expr(builder, arg)?); }`
compile_args(g, args, i, arg_values) ==
    IF i > Len(args) THEN [g |-> g, arg_values |-> arg_values]
    ELSE push_arg(compile_expr(g, args[i]), args, i, arg_values)

\* VarDecl: builder.def_var(var, val) of the Variable just inserted
var_decl_def(n, name, val) ==
    [def_var(n, n.variables[name], val) EXCEPT !.ret = 0]

\* VarDecl: a new Variable for the name, defined as the Value of v
var_decl_arm(v, name) == var_decl_def(new_variable(v, name), name, v.val)

\* Assignment: def_var of the Variable the name is bound to
assignment_arm(v, name) ==
    IF name \notin DOMAIN v.variables
    THEN [v EXCEPT !.panic = TRUE, !.ret = 0]
    ELSE [def_var(v, v.variables[name], v.val) EXCEPT !.ret = 0]

\* mutant: the Return arm emits a return instruction where it stands
return_arm_terminates(v) ==
    [ins(v, "return", <<v.val>>, <<>>) EXCEPT !.ret = v.val]

\* The Return arm emits no instruction: it hands Some(val) to its caller.
\* The model leaves a marker there, which has no effect on the values of the
\* generated code, so that its execution shows when a Return is evaluated.
return_arm(v) ==
    [ins(v, "return_stmt", <<v.val>>, <<>>) EXCEPT !.ret = v.val, !.events = v.events]

\* ExprStmt: the Value is dropped, the arm is Ok(None)
expr_stmt_arm(v) == [v EXCEPT !.ret = 0]

RECURSIVE compile_statement(_, _)
RECURSIVE compile_block(_, _, _, _)

\* If: jump to the merge block, switch to it and seal it; the arm is Ok(None)
if_merge(e, merge_bb) ==
    [seal_block(switch_to_block(ins(e, "jump", <<>>, <<merge_bb>>), merge_bb),
                merge_bb) EXCEPT !.ret = 0]

\* If: `if let Some(else_stmts) = else_block { self.compile_block(..)?; }`
if_else_block(e, else_block) ==
    IF else_block = <<>> THEN e ELSE compile_block(e, else_block[1], 1, 0)

\* If: after the then block t, jump to merge, switch to the else block, seal it
if_else(t, else_bb, merge_bb, else_block) ==
    if_merge(if_else_block(seal_block(switch_to_block(
                               ins(t, "jump", <<>>, <<merge_bb>>), else_bb), else_bb),
                           else_block),
             merge_bb)

\* If: switch to the then block, seal it, compile the then statements
if_then(b, then_bb, else_bb, merge_bb, stmt) ==
    if_else(compile_block(seal_block(switch_to_block(b, then_bb), then_bb),
                          stmt.then_block, 1, 0),
            else_bb, merge_bb, stmt.else_block)

\* If: the three blocks and brif on the condition Value of c
if_arm(c, stmt) ==
    LET then_bb == Len(c.blocks) + 1
        else_bb == Len(c.blocks) + 2
        merge_bb == Len(c.blocks) + 3
    IN  if_then(ins(create_block(create_block(create_block(c))),
                    "brif", <<c.val>>, <<then_bb, else_bb>>),
                then_bb, else_bb, merge_bb, stmt)

\* mutant: the body jumps on to the exit block and not back to the header
while_exit_once(l, header_bb, loop_body_bb, exit_bb) ==
    [seal_block(switch_to_block(
         seal_block(ins(l, "jump", <<>>, <<exit_bb>>), header_bb),
         exit_bb), exit_bb)
       EXCEPT !.ret = 0,
              !.loops = Append(@, [header |-> header_bb, body |-> loop_body_bb,
                                   exit |-> exit_bb])]

\* mutant: the header is sealed before the jump back to it is emitted
while_exit_sealed_early(l, header_bb, loop_body_bb, exit_bb) ==
    [seal_block(switch_to_block(
         ins(seal_block(l, header_bb), "jump", <<>>, <<header_bb>>),
         exit_bb), exit_bb)
       EXCEPT !.ret = 0,
              !.loops = Append(@, [header |-> header_bb, body |-> loop_body_bb,
                                   exit |-> exit_bb])]

\* While: after the body l, jump back to the header, seal the header, switch
\* to the exit block and seal it; the arm is Ok(None)
while_exit(l, header_bb, loop_body_bb, exit_bb) ==
    [seal_block(switch_to_block(
         seal_block(ins(l, "jump", <<>>, <<header_bb>>), header_bb),
         exit_bb), exit_bb)
       EXCEPT !.ret = 0,
              !.loops = Append(@, [header |-> header_bb, body |-> loop_body_bb,
                                   exit |-> exit_bb])]

\* While: brif on the condition Value of h, then the body in its sealed block
while_body(h, header_bb, loop_body_bb, exit_bb, body) ==
    while_exit(compile_block(
                   seal_block(switch_to_block(
                       ins(h, "brif", <<h.val>>, <<loop_body_bb, exit_bb>>),
                       loop_body_bb), loop_body_bb),
                   body, 1, 0),
               header_bb, loop_body_bb, exit_bb)

\* While: the three blocks, the jump to the header, the condition in the header
while_arm(g, stmt) ==
    LET header_bb == Len(g.blocks) + 1
        loop_body_bb == Len(g.blocks) + 2
        exit_bb == Len(g.blocks) + 3
    IN  while_body(compile_expr(
                       switch_to_block(
                           ins(create_block(create_block(create_block(g))),
                               "jump", <<>>, <<header_bb>>),
                           header_bb),
                       stmt.condition),
                   header_bb, loop_body_bb, exit_bb, stmt.body)

compile_statement(g, stmt) ==
    CASE stmt.kind = "VarDecl" -> var_decl_arm(compile_expr(g, stmt.value), stmt.name)
      [] stmt.kind = "Assignment" ->
            assignment_arm(compile_expr(g, stmt.value), stmt.name)
      [] stmt.kind = "If" -> if_arm(compile_expr(g, stmt.condition), stmt)
      [] stmt.kind = "While" -> while_arm(g, stmt)
      [] stmt.kind = "Return" -> return_arm(compile_expr(g, stmt.value))
      [] stmt.kind = "ExprStmt" -> expr_stmt_arm(compile_expr(g, stmt.expr))

\* `if let Some(val) = self.compile_statement(..)? { last_return = Some(val); }`
keep_return(s, block, i, last_return) ==
    compile_block(s, block, i + 1, IF s.ret # 0 THEN s.ret ELSE last_return)

\* the loop of compile_block: the Value of the last statement that returned Some
compile_block(g, block, i, last_return) ==
    IF i > Len(block) THEN [g EXCEPT !.ret = last_return]
    ELSE keep_return(compile_statement(g, block[i]), block, i, last_return)

\* declare_var, def_var of block parameter i for the Variable just inserted
RECURSIVE define_params(_, _, _)
define_param(n, params, i) ==
    define_params(def_var(n, n.variables[params[i]], i), params, i + 1)

\* the loop over func.params of compile_function; params[i] is Value i
define_params(g, params, i) ==
    IF i > Len(params) THEN g
    ELSE define_param(new_variable(g, params[i]), params, i)

\* mutant: a body without a Return yields the Value computed last
final_return_last_value(g) ==
    IF g.ret = 0
    THEN (IF g.val # 0 THEN g ELSE ins_val(g, "iconst", <<>>, 0, ""))
    ELSE [g EXCEPT !.val = g.ret]

\* return_val.unwrap_or_else(|| builder.ins().iconst(types::I64, 0)), left in g.val
final_return(g) ==
    IF g.ret = 0 THEN ins_val(g, "iconst", <<>>, 0, "") ELSE [g EXCEPT !.val = g.ret]

\* the builder of compile_function after the entry block was created,
\* given the block parameters, switched to and sealed
NewBuilder(self, nparams) ==
    [functions |-> self.functions, signatures |-> self.signatures, err |-> "",
     variables |-> EmptyMap, variable_counter |-> 0,
     blocks |-> << <<>> >>, cur |-> 1, nvals |-> nparams, sealed |-> <<1>>,
     loops |-> <<>>, val |-> 0, ret |-> 0, panic |-> FALSE,
     events |-> <<Event("switch", 1, "", <<>>), Event("seal", 1, "", <<>>)>>]

\* builder.ins().return_(&[ret]) of the Value final_return left
emit_return(f) == ins(f, "return", <<f.val>>, <<>>)

\* the function as define_function puts it into the module
defined_function(r, func) ==
    [name |-> func.name, nparams |-> Len(func.params), blocks |-> r.blocks,
     nvals |-> r.nvals, nvars |-> r.variable_counter, sealed |-> r.sealed,
     loops |-> r.loops, panic |-> r.panic, err |-> r.err, events |-> r.events]

\* the params of the signature compile_function sets up in self.ctx, which
\* append_block_params_for_function_params makes the entry block's
signature_params(self, func) == push_signature(self.signature, Len(func.params)).params

\* compile_function: the function as it is defined in the module
compile_function(self, func) ==
    defined_function(
        emit_return(final_return(
            compile_block(define_params(NewBuilder(self, signature_params(self, func)),
                                        func.params, 1),
                          func.body, 1, 0))),
        func)


(***************************************************************************)
(* SemanticAnalyzer::analyze as one function of the program: the code      *)
(* generator runs on a program only after analyze returned Ok (lib.rs).    *)
(***************************************************************************)
RECURSIVE collect_signatures(_, _, _)
collect_signatures(prog, i, functions) ==
    IF i > Len(prog) THEN [functions |-> functions, err |-> NoErr]
    ELSE IF prog[i].name \in DOMAIN functions
         THEN [functions |-> functions,
               err |-> Err("Duplicate function definition", prog[i].name)]
         ELSE collect_signatures(prog, i + 1,
                                 insert(functions, prog[i].name, Len(prog[i].params)))

RECURSIVE analyze_bodies(_, _, _, _)
analyze_bodies(prog, i, functions, scopes) ==
    IF i > Len(prog) THEN NoErr
    ELSE LET r == analyze_function(functions, scopes, prog[i])
         IN  IF r.err # NoErr THEN r.err
             ELSE analyze_bodies(prog, i + 1, functions, r.scopes)

analyze(prog) ==
    LET c == collect_signatures(prog, 1, EmptyMap)
    IN  IF c.err # NoErr THEN c.err
        ELSE IF check_main(c.functions) # NoErr THEN check_main(c.functions)
             ELSE analyze_bodies(prog, 1, c.functions, <<{}>>)

(***************************************************************************)
(* The machine the generated code runs on: two's complement integers of    *)
(* WordBits bits (64 in the program), kept as signed numbers.              *)
(***************************************************************************)
RECURSIVE Pow2(_)
Pow2(n) == IF n = 0 THEN 1 ELSE 2 * Pow2(n - 1)

Modulus == Pow2(WordBits)
Half == Pow2(WordBits - 1)
Word == (-Half)..(Half - 1)
IntMin == -Half
IntMax == Half - 1

Wrap(x) == ((x + Half) % Modulus) - Half
Unsigned(x) == x % Modulus

Abs(x) == IF x < 0 THEN -x ELSE x

\* signed division rounds toward zero
TruncDiv(a, b) ==
    IF (a < 0) = (b < 0) THEN Abs(a) \div Abs(b) ELSE -(Abs(a) \div Abs(b))

RECURSIVE BitOp(_, _, _, _)
BitOp(op, a, b, n) ==
    IF n = 0 THEN 0
    ELSE LET x == a % 2
             y == b % 2
             bit == IF op = "band" THEN x * y ELSE (IF x + y > 0 THEN 1 ELSE 0)
         IN  bit + 2 * BitOp(op, a \div 2, b \div 2, n - 1)

\* the condition codes of icmp and icmp_imm
Holds(cc, a, b) ==
    CASE cc = "Equal" -> a = b
      [] cc = "NotEqual" -> a # b
      [] cc = "SignedLessThan" -> a < b
      [] cc = "SignedLessThanOrEqual" -> a <= b
      [] cc = "SignedGreaterThan" -> a > b
      [] cc = "SignedGreaterThanOrEqual" -> a >= b
      [] cc = "UnsignedLessThan" -> Unsigned(a) < Unsigned(b)
      [] cc = "UnsignedLessThanOrEqual" -> Unsigned(a) <= Unsigned(b)
      [] cc = "UnsignedGreaterThan" -> Unsigned(a) > Unsigned(b)
      [] cc = "UnsignedGreaterThanOrEqual" -> Unsigned(a) >= Unsigned(b)

Bool(b) == IF b THEN 1 ELSE 0

ValueOps ==
    {"iconst", "use_var", "iadd", "isub", "imul", "sdiv", "srem",
     "icmp", "icmp_imm", "bint", "band", "bor", "ineg"}

\* sdiv traps on a zero divisor and on IntMin / -1, srem on a zero divisor
Traps(i, vals) ==
    \/ i.op \in {"sdiv", "srem"} /\ vals[i.args[2]] = 0
    \/ i.op = "sdiv" /\ vals[i.args[1]] = IntMin /\ vals[i.args[2]] = -1

\* the result of an instruction of ValueOps
Eval(i, vals, variables) ==
    LET a == IF Len(i.args) >= 1 THEN vals[i.args[1]] ELSE 0
        b == IF Len(i.args) >= 2 THEN vals[i.args[2]] ELSE 0
    IN  CASE i.op = "iconst" -> Wrap(i.imm)
          [] i.op = "use_var" -> variables[i.imm]
          [] i.op = "iadd" -> Wrap(a + b)
          [] i.op = "isub" -> Wrap(a - b)
          [] i.op = "imul" -> Wrap(a * b)
          [] i.op = "sdiv" -> Wrap(TruncDiv(a, b))
          [] i.op = "srem" -> Wrap(a - b * TruncDiv(a, b))
          [] i.op = "ineg" -> Wrap(-a)
          [] i.op = "icmp" -> Bool(Holds(i.cc, a, b))
          [] i.op = "icmp_imm" -> Bool(Holds(i.cc, a, i.imm))
          [] i.op = "bint" -> Bool(a # 0)
          [] i.op \in {"band", "bor"} ->
                Wrap(BitOp(i.op, Unsigned(a), Unsigned(b), WordBits))


(***************************************************************************)
(* The programs the code generator is run on.                              *)
(***************************************************************************)
\* longest output of a run of the model
MaxOutput == 6

Main(body) == <<Function("main", <<>>, body)>>
X == Variable("x")

\* the end-to-end scenarios S1 to S6 (main.rs tests)
S1 == Main(<<VarDecl("x", Number(7)), Return(X)>>)
S2 == Main(<<VarDecl("a", Number(1)), VarDecl("b", Number(2)),
             VarDecl("c", Binary("Add", Variable("a"),
                                 Binary("Mul", Variable("b"), Number(2)))),
             Return(Variable("c"))>>)
S3 == Main(<<VarDecl("x", Number(5)),
             If(Binary("Gt", X, Number(3)), <<Return(Number(1))>>,
                << <<Return(Number(0))>> >>)>>)
SumLoop(n) ==
    Main(<<VarDecl("i", Number(0)), VarDecl("sum", Number(0)),
           While(Binary("Lt", Variable("i"), Number(n)),
                 <<Assignment("sum", Binary("Add", Variable("sum"), Variable("i"))),
                   Assignment("i", Binary("Add", Variable("i"), Number(1)))>>),
           Return(Variable("sum"))>>)
S5 == <<Function("add", <<"a", "b">>, <<Return(Binary("Add", Variable("a"), Variable("b")))>>),
        Function("main", <<>>, <<Return(Call("add", <<Number(1), Number(2)>>))>>)>>
S6 == Main(<<VarDecl("a", Number(1)), VarDecl("b", Number(0)),
             If(Binary("And", Variable("a"), Unary("Not", Variable("b"))),
                <<If(Binary("Or", Variable("a"), Variable("b")),
                     <<Return(Number(1))>>, <<>>)>>, <<>>),
             Return(Number(0))>>)
Scenarios == {S1, S2, S3, S5, S6} \cup {SumLoop(n) : n \in 0..MaxN}

\* return family: `let x = c;` and then statements that return, print, assign,
\* branch and loop
Decr == Assignment("x", Binary("Sub", X, Number(1)))
ReturnStmts ==
    {Return(X),
     ExprStmt(Call("print", <<X>>)),
     Assignment("x", Binary("Add", X, Number(1))),
     If(X, <<Return(Number(3))>>, <<>>),
     If(X, <<Return(Number(4))>>, << <<Return(Number(5))>> >>),
     If(X, <<Decr>>, << <<ExprStmt(Call("print", <<Number(9)>>))>> >>),
     While(X, <<Decr>>),
     While(X, <<Decr, Return(Number(6))>>)}
ReturnPrograms ==
    {Main(<<VarDecl("x", Number(c))>> \o t) :
        c \in {0, 2}, t \in SeqsUpTo(ReturnStmts, MaxStmts)}

\* shadowing family: an inner `let x` in the block of an if, and in a loop body
ShadowIf(c) ==
    Main(<<VarDecl("x", Number(1)), If(Number(c), <<VarDecl("x", Number(2))>>, <<>>),
           Return(X)>>)
ShadowLoop ==
    Main(<<VarDecl("i", Number(0)), VarDecl("n", Number(0)),
           While(Binary("Lt", Variable("i"), Number(2)),
                 <<If(Number(1), <<VarDecl("i", Number(7))>>, <<>>),
                   Assignment("i", Binary("Add", Variable("i"), Number(1))),
                   Assignment("n", Binary("Add", Variable("n"), Number(1)))>>),
           Return(Variable("n"))>>)
ShadowPrograms == {ShadowIf(c) : c \in {0, 1}} \cup {ShadowLoop}

\* call family: a callee without a Return, a recursive callee
CallNoReturn ==
    <<Function("main", <<>>, <<Return(Binary("Add", Call("f", <<Number(2)>>), Number(1)))>>),
      Function("f", <<"a">>, <<Assignment("a", Binary("Add", Variable("a"), Number(1)))>>)>>
CallRecursive ==
    <<Function("f", <<"n">>,
               <<If(Variable("n"),
                    <<Return(Call("f", <<Binary("Sub", Variable("n"), Number(1))>>))>>,
                    <<>>),
                 Return(Number(0))>>),
      Function("main", <<>>, <<Return(Call("f", <<Number(1)>>))>>)>>
RunCallPrograms == {CallNoReturn, CallRecursive}

\* The lexer reads a literal as a non-negative i64 (lexer.rs parse::<i64>), so
\* a negative operand is written with the unary minus, and the least integer
\* as -IntMax - 1.
Lit(a) ==
    IF a >= 0 THEN Number(a)
    ELSE IF a = IntMin
    THEN Binary("Sub", Unary("Neg", Number(IntMax)), Number(1))
    ELSE Unary("Neg", Number(-a))

\* operator family: one operator on every pair of machine integers
OpProgram(op, a, b) == Main(<<Return(Binary(op, Lit(a), Lit(b)))>>)
NotProgram(a) == Main(<<Return(Unary("Not", Lit(a)))>>)
EdgeWords == {IntMin, -1, 0, 1, 2, IntMax}
OpPrograms ==
    {OpProgram(op, a, b) : op \in CompareOps \cup LogicOps, a \in Word, b \in Word}
    \cup {OpProgram(op, a, b) : op \in ArithOps, a \in EdgeWords, b \in EdgeWords}
    \cup {NotProgram(a) : a \in Word}
    \cup {Main(<<Return(Unary("Neg", Lit(a)))>>) : a \in EdgeWords}

\* print family: operands and call arguments that print
Pr(e) == Call("print", <<e>>)
PrintOperands == {0, 2, 3}
LogicPrintProgram(op, a, b) ==
    Main(<<Return(Binary(op, Pr(Number(a)), Pr(Number(b))))>>)
ArgsPrintProgram ==
    <<Function("sub", <<"a", "b">>,
               <<Return(Binary("Sub", Variable("a"), Variable("b")))>>),
      Function("main", <<>>,
               <<Return(Call("sub", <<Pr(Number(1)), Pr(Number(2))>>))>>)>>
NestedPrintProgram(a) == Main(<<Return(Binary("Add", Number(1), Pr(Number(a))))>>)
\* print(print(a))
DoublePrintProgram(a) == Main(<<Return(Pr(Pr(Number(a))))>>)
\* 1 + print(a) in a program that defines a function named print
UserPrintProgram(a) ==
    <<Function("print", <<"v">>, <<Return(Number(0))>>),
      Function("main", <<>>, <<Return(Binary("Add", Number(1), Pr(Number(a))))>>)>>
\* print(a) in a program that defines a function named print_int
PrintIntProgram(a) ==
    <<Function("print_int", <<"v">>, <<Return(Number(0))>>),
      Function("main", <<>>, <<Return(Pr(Number(a)))>>)>>
PrintPrograms ==
    {LogicPrintProgram(op, a, b) : op \in LogicOps, a \in PrintOperands, b \in PrintOperands}
    \cup {ArgsPrintProgram}
    \cup {NestedPrintProgram(a) : a \in PrintOperands}
    \cup {DoublePrintProgram(a) : a \in PrintOperands}
    \cup {UserPrintProgram(a) : a \in PrintOperands}
    \cup {PrintIntProgram(a) : a \in PrintOperands}

GenPrograms ==
    {p \in Scenarios \cup ReturnPrograms \cup ShadowPrograms \cup RunCallPrograms
           \cup OpPrograms \cup PrintPrograms : analyze(p) = NoErr}

(***************************************************************************)
(* CodeGenerator::new, CodeGenerator::compile and the call of main         *)
(* (lib.rs compile_and_run), then the execution of the generated code.     *)
(***************************************************************************)
InitGen ==
    /\ program \in GenPrograms
    /\ pc = "declare"
    /\ an = AnNew
    /\ cg = CgIdle
    /\ stack = <<>>
    /\ output = <<>>
    /\ result = 0
    /\ source = <<>>
    /\ lexer = Lexer_new
    /\ tokens = <<>>
    /\ error = NoError
    /\ jit = "building"
    /\ returned = NotReturned

\* declare_function: the module declares the name with a signature of
\* param_count parameters, and the FuncId is recorded under the name
declare_function(self, name, param_count) ==
    [self EXCEPT !.functions = insert(@, name, Len(self.signatures) + 1),
                 !.signatures = Append(@, push_signature(self.signature, param_count)),
                 !.signature = clear_signature(push_signature(self.signature,
                                                              param_count))]

\* first pass of compile: declare_function records the function's handle
DeclareFunction ==
    /\ pc = "declare"
    /\ cg.i <= Len(program)
    /\ cg' = [declare_function(cg, program[cg.i].name, Len(program[cg.i].params))
                 EXCEPT !.i = IF cg.i = Len(program) THEN 1 ELSE cg.i + 1]
    /\ pc' = IF cg.i = Len(program) THEN "define" ELSE "declare"
    /\ UNCHANGED <<program, an, stack, output, result>>
    /\ UNCHANGED <<source, lexer, tokens, error, jit, returned>>

\* self.module.define_function(func_id, &mut self.ctx), reached when the
\* body was compiled without an Err
define_function(self, f) ==
    IF f.err # "" THEN self
    ELSE [self EXCEPT !.module = Append(@, f), !.i = @ + 1]

\* the String of a code generator Err
CodegenError(e) == [msg |-> e, line |-> 0, column |-> 0]

\* second pass of compile: compile_function defines the function in the
\* module, or returns the Err of its body
CompileFunction ==
    /\ pc = "define"
    /\ cg.i <= Len(program)
    /\ cg' = define_function(cg, compile_function(cg, program[cg.i]))
    /\ pc' = IF cg'.i = cg.i THEN "codegen_err"
             ELSE IF cg.i = Len(program) THEN "finalize" ELSE "define"
    /\ error' = IF cg'.i = cg.i
                THEN CodegenError(compile_function(cg, program[cg.i]).err)
                ELSE error
    /\ UNCHANGED <<program, an, stack, output, result>>
    /\ UNCHANGED <<source, lexer, tokens, jit, returned>>

\* finalize_definitions and the lookup of main's handle
Finalize ==
    /\ pc = "finalize"
    /\ pc' = IF "main" \in DOMAIN cg.functions THEN "compiled" ELSE "codegen_err"
    /\ error' = IF "main" \in DOMAIN cg.functions THEN error
                ELSE CodegenError("No main function")
    /\ jit' = "finalized"
    /\ UNCHANGED <<program, an, cg, stack, output, result>>
    /\ UNCHANGED <<source, lexer, tokens, returned>>

Frame(fn, args) ==
    LET f == cg.module[fn]
    IN  [fn |-> fn, blk |-> 1, idx |-> 1,
         vals |-> [v \in 1..f.nvals |-> IF v <= Len(args) THEN args[v] ELSE 0],
         variables |-> [k \in 0..(f.nvars - 1) |-> 0],
         ret |-> [set |-> FALSE, val |-> 0, outlen |-> 0],
         hits |-> [b \in 1..Len(f.blocks) |-> IF b = 1 THEN 1 ELSE 0]]

\* mutant: the CodeGenerator is dropped before main is called
InvokeMainDropped ==
    /\ pc = "compiled"
    /\ stack' = <<Frame(cg.functions["main"], <<>>)>>
    /\ pc' = "run"
    /\ jit' = "dropped"
    /\ UNCHANGED <<program, an, cg, output, result>>
    /\ UNCHANGED <<source, lexer, tokens, error, returned>>

\* compile_and_run: main_fn()
InvokeMain ==
    /\ pc = "compiled"
    /\ stack' = <<Frame(cg.functions["main"], <<>>)>>
    /\ pc' = "run"
    /\ UNCHANGED <<program, an, cg, output, result>>
    /\ UNCHANGED <<source, lexer, tokens, error, jit, returned>>

Top == stack[Len(stack)]
Cur == cg.module[Top.fn].blocks[Top.blk][Top.idx]
SetTop(frame) == [stack EXCEPT ![Len(stack)] = frame]

\* an instruction that computes a Value, defines a Variable, or the marker
StepInstr ==
    /\ pc = "run"
    /\ Cur.op \in ValueOps \cup {"def_var", "return_stmt"}
    /\ IF Traps(Cur, Top.vals)
       THEN pc' = "trap" /\ stack' = stack
       ELSE /\ pc' = pc
            /\ stack' = SetTop(
                 CASE Cur.op = "def_var" ->
                        [Top EXCEPT !.variables[Cur.imm] = Top.vals[Cur.args[1]],
                                    !.idx = @ + 1]
                   [] Cur.op = "return_stmt" ->
                        [Top EXCEPT !.ret = IF Top.ret.set THEN @
                                            ELSE [set |-> TRUE,
                                                  val |-> Top.vals[Cur.args[1]],
                                                  outlen |-> Len(output)],
                                    !.idx = @ + 1]
                   [] OTHER ->
                        [Top EXCEPT !.vals[Cur.dst] = Eval(Cur, Top.vals, Top.variables),
                                    !.idx = @ + 1])
    /\ UNCHANGED <<program, an, cg, output, result>>
    /\ UNCHANGED <<source, lexer, tokens, error, jit, returned>>

\* brif and jump
StepBranch ==
    /\ pc = "run"
    /\ Cur.op \in {"brif", "jump"}
    /\ LET target == IF Cur.op = "jump" THEN Cur.to[1]
                     ELSE IF Top.vals[Cur.args[1]] # 0 THEN Cur.to[1] ELSE Cur.to[2]
       IN  stack' = SetTop([Top EXCEPT !.blk = target, !.idx = 1,
                                       !.hits[target] = IF @ <= MaxN THEN @ + 1 ELSE @])
    /\ UNCHANGED <<program, pc, an, cg, output, result>>
    /\ UNCHANGED <<source, lexer, tokens, error, jit, returned>>

\* call of a function of the module
StepCall ==
    /\ pc = "run"
    /\ Cur.op = "call" /\ Cur.cc = ""
    /\ Len(stack) < MaxDepth
    /\ stack' = Append(stack, Frame(Cur.imm, [k \in DOMAIN Cur.args |-> Top.vals[Cur.args[k]]]))
    /\ UNCHANGED <<program, pc, an, cg, output, result>>
    /\ UNCHANGED <<source, lexer, tokens, error, jit, returned>>

\* call of the runtime's print_int (runtime.rs): prints and returns its argument
StepPrint ==
    /\ pc = "run"
    /\ Cur.op = "call" /\ Cur.cc = "print_int"
    /\ Len(output) < MaxOutput
    /\ output' = Append(output, Top.vals[Cur.args[1]])
    /\ stack' = SetTop([Top EXCEPT !.vals[Cur.dst] = Top.vals[Cur.args[1]], !.idx = @ + 1])
    /\ UNCHANGED <<program, pc, an, cg, result>>
    /\ UNCHANGED <<source, lexer, tokens, error, jit, returned>>

\* return_: back to the caller, or to compile_and_run with main's result
StepReturn ==
    /\ pc = "run"
    /\ Cur.op = "return"
    /\ LET v == Top.vals[Cur.args[1]]
           n == Len(stack)
       IN  IF n = 1
           THEN /\ result' = v
                /\ pc' = "done"
                /\ stack' = <<>>
           ELSE /\ LET caller == stack[n - 1]
                       call == cg.module[caller.fn].blocks[caller.blk][caller.idx]
                   IN  stack' = [SubSeq(stack, 1, n - 1) EXCEPT
                                    ![n - 1] = [caller EXCEPT !.vals[call.dst] = v,
                                                              !.idx = @ + 1]]
                /\ UNCHANGED <<pc, result>>
    /\ UNCHANGED <<program, an, cg, output>>
    /\ UNCHANGED <<source, lexer, tokens, error, jit, returned>>

NextGen ==
    \/ DeclareFunction \/ CompileFunction \/ Finalize \/ InvokeMain
    \/ StepInstr \/ StepBranch \/ StepCall \/ StepPrint \/ StepReturn

SpecGen == InitGen /\ [][NextGen]_vars

(***************************************************************************)
(* Reference vocabulary of the properties of the generated code.           *)
(***************************************************************************)
Running == pc = "run"

\* the frame on top is at the return_ instruction of its function
AtReturn == Running /\ Cur.op = "return"

\* the Value the return_ instruction on top is about to hand back
ReturnedValue == Top.vals[Cur.args[1]]

\* the body of main, and the blocks of the first loop of the function on top
MainBody == program[Len(program)].body
FirstLoop == cg.module[Top.fn].loops[1]

\* 0 + 1 + ... + (n - 1)
RECURSIVE SumBelow(_)
SumBelow(n) == IF n <= 0 THEN 0 ELSE (n - 1) + SumBelow(n - 1)

\* the integer an operand written by Lit stands for
Operand(e) ==
    IF e.kind = "Number" THEN e.n
    ELSE IF e.kind = "Unary" THEN -e.operand.n
    ELSE IntMin

\* the value of a comparison or logical operator on signed integers
Truth(op, a, b) ==
    CASE op = "Eq" -> IF a = b THEN 1 ELSE 0
      [] op = "Ne" -> IF a = b THEN 0 ELSE 1
      [] op = "Lt" -> IF a < b THEN 1 ELSE 0
      [] op = "Le" -> IF a <= b THEN 1 ELSE 0
      [] op = "Gt" -> IF b < a THEN 1 ELSE 0
      [] op = "Ge" -> IF b <= a THEN 1 ELSE 0
      [] op = "And" -> IF a # 0 /\ b # 0 THEN 1 ELSE 0
      [] op = "Or" -> IF a # 0 \/ b # 0 THEN 1 ELSE 0

\* main is `let x = c; return x; S1; ...; Sn`
ReturnThenMore ==
    /\ program \in ReturnPrograms
    /\ Len(MainBody) >= 3
    /\ MainBody[2] = Return(X)

(***************************************************************************)
(* C1: executing a Return statement at any nesting depth ends the          *)
(* function, and the function's result is the value of that Return: once   *)
(* a Return was evaluated in a frame the frame is at its return_           *)
(* instruction, which hands back the value of the Return evaluated first;  *)
(* scenario S3 (x = 5, `if x > 3 { return 1; } else { return 0; }`)        *)
(* makes main yield 1.                                                     *)
(***************************************************************************)
C1_ReturnEndsFunction ==
    /\ Running /\ Top.ret.set => Cur.op = "return" /\ ReturnedValue = Top.ret.val
    /\ pc = "done" /\ program = S3 => result = 1

(***************************************************************************)
(* C2: the statements that follow a Return in the same block are not       *)
(* executed: in `let x = c; return x; S1; ...; Sn` nothing is printed, x   *)
(* keeps the value c after the Return was evaluated, and main yields c,    *)
(* not the value of a later Return.                                        *)
(***************************************************************************)
C2_DeadCodeAfterReturn ==
    ReturnThenMore =>
        /\ output = <<>>
        /\ pc # "trap"
        /\ Running /\ Top.ret.set => Top.variables[0] = MainBody[1].value.n
        /\ pc = "done" => result = MainBody[1].value.n

(***************************************************************************)
(* C3: shadowing is resolved per scope in the generated code: after a      *)
(* nested block that redeclared x ends, x is the outer variable again:     *)
(* `let x = 1; if c { let x = 2; } return x;` yields 1 for every c, and    *)
(* the counter of the loop `while i < 2 { if 1 { let i = 7; } i = i + 1;   *)
(* n = n + 1; }` is the variable its condition reads, so the body runs     *)
(* twice and main yields 2.                                                *)
(***************************************************************************)
C3_ShadowingPerScope ==
    /\ pc = "done" /\ program \in {ShadowIf(0), ShadowIf(1)} => result = 1
    /\ pc = "done" /\ program = ShadowLoop => result = 2
    /\ Running /\ program = ShadowLoop => Top.hits[FirstLoop.body] <= 2

(***************************************************************************)
(* C4: a function whose execution reaches the end of its body without      *)
(* having evaluated a Return statement yields 0.                           *)
(***************************************************************************)
C4_DefaultReturnZero ==
    AtReturn /\ ~Top.ret.set => ReturnedValue = 0

\* the callee of CallNoReturn, whose body is one assignment, is at its end
C4_Witness ==
    /\ program = CallNoReturn
    /\ AtReturn /\ Len(stack) = 2
    /\ ~Top.ret.set
    /\ Top.variables[0] = 3
    /\ ReturnedValue = 0

(***************************************************************************)
(* C5: a while loop runs its body as long as its condition is nonzero and  *)
(* the condition reads what the body assigned: for every n in 0..MaxN,     *)
(* `let i = 0; let sum = 0; while i < n { sum = sum + i; i = i + 1; }      *)
(* return sum;` runs the body exactly n times and yields 0 + ... + (n-1).  *)
(***************************************************************************)
C5_WhileLoopSum ==
    \A n \in 0..MaxN :
        program = SumLoop(n) =>
            /\ pc # "trap"
            /\ Running => Top.hits[FirstLoop.body] <= n
            /\ AtReturn => Top.hits[FirstLoop.body] = n /\ ReturnedValue = SumBelow(n)
            /\ pc = "done" => result = SumBelow(n)

\* the loop of scenario S4's shape with the largest n has run: the sum is
\* 0 + 1 + ... + (MaxN - 1), 10 for MaxN = 5
C5_Witness ==
    /\ program = SumLoop(MaxN)
    /\ pc = "done"
    /\ result = (MaxN * (MaxN - 1)) \div 2
    /\ result > 0

(***************************************************************************)
(* C10: every comparison, && and ||, and unary ! yield exactly 0 or 1 on   *)
(* all operand values: the comparisons compare signed integers, the        *)
(* logical operators take a nonzero operand as true.                       *)
(***************************************************************************)
C10_BooleanResults ==
    program \in OpPrograms =>
        LET e == MainBody[1].value
        IN  /\ e.kind = "Binary" /\ e.op \in CompareOps \cup LogicOps =>
                /\ pc # "trap"
                /\ pc = "done" =>
                      /\ result \in {0, 1}
                      /\ result = Truth(e.op, Operand(e.left), Operand(e.right))
            /\ e.kind = "Unary" /\ e.op = "Not" =>
                /\ pc # "trap"
                /\ pc = "done" =>
                      /\ result \in {0, 1}
                      /\ result = (IF Operand(e.operand) = 0 THEN 1 ELSE 0)

\* `2 && 4` has run and yielded 1
C10_Witness ==
    /\ program = OpProgram("And", 2, 4)
    /\ pc = "done"
    /\ result = 1

\* s is an initial part of t
IsPrefix(s, t) == Len(s) <= Len(t) /\ s = SubSeq(t, 1, Len(s))

(***************************************************************************)
(* C11: && and || are strict and evaluated left to right: in               *)
(* `print(a) && print(b)` and `print(a) || print(b)` both operands are     *)
(* evaluated exactly once, the left one first, whatever its value, so the  *)
(* output is a then b; the arguments of a call are evaluated left to       *)
(* right too: `sub(print(1), print(2))` prints 1 then 2 and yields 1 - 2.  *)
(***************************************************************************)
C11_StrictLeftToRight ==
    /\ \A op \in LogicOps, a \in PrintOperands, b \in PrintOperands :
          program = LogicPrintProgram(op, a, b) =>
              /\ IsPrefix(output, <<a, b>>)
              /\ pc = "done" => output = <<a, b>> /\ result = Truth(op, a, b)
    /\ program = ArgsPrintProgram =>
          /\ IsPrefix(output, <<1, 2>>)
          /\ pc = "done" => output = <<1, 2>> /\ result = -1

\* `print(0) && print(3)` has run: the right operand was printed although
\* the left one is false
C11_Witness ==
    /\ program = LogicPrintProgram("And", 0, 3)
    /\ pc = "done"
    /\ output = <<0, 3>>
    /\ result = 0

(***************************************************************************)
(* token.rs: TokenType and Token.                                          *)
(***************************************************************************)
TNumber(n) == [kind |-> "Number", n |-> n]
TIdent(name) == [kind |-> "Ident", name |-> name]
TKind(kind) == [kind |-> kind]

Token(typ, line, column) == [typ |-> typ, line |-> line, column |-> column]

(***************************************************************************)
(* lexer.rs: Lexer.  `position` is the 0-based index of the cursor into    *)
(* the characters, `line` and `column` its 1-based place.  `start` is the  *)
(* position at which next_token took start_line and start_column.         *)
(***************************************************************************)
\* longest source of the exhaustive lexer inputs
MaxChars == 3

\* char::is_ascii_digit
AsciiDigits == {"0", "1", "2", "3", "4", "5", "6", "7", "8", "9"}

AsciiLetters ==
    {"a", "b", "c", "d", "e", "f", "g", "h", "i", "j", "k", "l", "m",
     "n", "o", "p", "q", "r", "s", "t", "u", "v", "w", "x", "y", "z",
     "A", "B", "C", "D", "E", "F", "G", "H", "I", "J", "K", "L", "M",
     "N", "O", "P", "Q", "R", "S", "T", "U", "V", "W", "X", "Y", "Z"}

\* code points outside ASCII with the Unicode property Alphabetic
\* (e with acute, Greek lambda), and with a numeric general category
\* (Arabic-Indic digit three, vulgar fraction one half)
UnicodeLetters == {"U+00E9", "U+03BB"}
UnicodeNumerics == {"U+0663", "U+00BD"}

\* char::is_alphabetic and char::is_alphanumeric go by the Unicode properties
is_alphabetic(ch) == ch \in AsciiLetters \cup UnicodeLetters
is_alphanumeric(ch) ==
    is_alphabetic(ch) \/ ch \in AsciiDigits \cup UnicodeNumerics

is_ascii_digit(ch) == ch \in AsciiDigits

is_at_end(src, lx) == lx.position >= Len(src)

\* '\0' at the end of the input
current_char(src, lx) ==
    IF is_at_end(src, lx) THEN "U+0000" ELSE src[lx.position + 1]

\* mutant: a tab moves the column to the next multiple of four
advance_tab_stop(src, lx) ==
    IF is_at_end(src, lx) THEN lx
    ELSE [lx EXCEPT !.position = @ + 1,
                    !.column = IF src[lx.position + 1] = "\t"
                               THEN @ + 4 - (@ % 4) ELSE @ + 1]

advance(src, lx) ==
    IF is_at_end(src, lx) THEN lx
    ELSE [lx EXCEPT !.position = @ + 1, !.column = @ + 1]

\* the '\n' arm of skip_whitespace
newline(lx) == [lx EXCEPT !.line = @ + 1, !.column = 1, !.position = @ + 1]

RECURSIVE skip_whitespace(_, _)
skip_whitespace(src, lx) ==
    IF is_at_end(src, lx) THEN lx
    ELSE IF current_char(src, lx) \in {" ", "\t", "\r"}
    THEN skip_whitespace(src, advance(src, lx))
    ELSE IF current_char(src, lx) = "\n"
    THEN skip_whitespace(src, newline(lx))
    ELSE lx

\* Ok(token) and Err(message) of next_token, with the lexer it leaves
LexOk(lx, typ, line, column) ==
    [lexer |-> lx, ok |-> TRUE, token |-> Token(typ, line, column), err |-> NoError]
LexErr(lx, msg, line, column) ==
    [lexer |-> lx, ok |-> FALSE, token |-> Token(TKind("Eof"), 0, 0),
     err |-> [msg |-> msg, line |-> line, column |-> column]]

\* the arms of the match on single-character tokens
SingleCharTokens ==
    [ch \in {"(", ")", "{", "}", ",", ";", "+", "-", "*", "/", "%"} |->
        CASE ch = "(" -> "LParen" [] ch = ")" -> "RParen"
          [] ch = "{" -> "LBrace" [] ch = "}" -> "RBrace"
          [] ch = "," -> "Comma" [] ch = ";" -> "Semicolon"
          [] ch = "+" -> "Plus" [] ch = "-" -> "Minus"
          [] ch = "*" -> "Star" [] ch = "/" -> "Slash"
          [] ch = "%" -> "Percent"]

\* the operators of one or two characters: the twin, the token of the pair,
\* the token of the first character alone ("" where that is an error)
TwoCharOperators ==
    [ch \in {"=", "!", "<", ">", "&", "|"} |->
        CASE ch = "=" -> [twin |-> "=", pair |-> "Eq", alone |-> "Assign"]
          [] ch = "!" -> [twin |-> "=", pair |-> "Ne", alone |-> "Bang"]
          [] ch = "<" -> [twin |-> "=", pair |-> "Le", alone |-> "Lt"]
          [] ch = ">" -> [twin |-> "=", pair |-> "Ge", alone |-> "Gt"]
          [] ch = "&" -> [twin |-> "&", pair |-> "And", alone |-> ""]
          [] ch = "|" -> [twin |-> "|", pair |-> "Or", alone |-> ""]]

\* `self.advance(); if self.current_char() == twin { .. }` on the lexer a
\* left by the advance over the first character ch
two_char_operator(src, a, ch, line, column) ==
    IF current_char(src, a) = TwoCharOperators[ch].twin
    THEN LexOk(advance(src, a), TKind(TwoCharOperators[ch].pair), line, column)
    ELSE IF TwoCharOperators[ch].alone # ""
    THEN LexOk(a, TKind(TwoCharOperators[ch].alone), line, column)
    ELSE LexErr(a, "Unexpected character '" \o ch \o "'", line, column)

\* the loop of read_number: the digits and the lexer behind them
RECURSIVE read_digits(_, _, _)
read_digits(src, lx, num_str) ==
    IF ~is_at_end(src, lx) /\ is_ascii_digit(current_char(src, lx))
    THEN read_digits(src, advance(src, lx), Append(num_str, current_char(src, lx)))
    ELSE [lexer |-> lx, num_str |-> num_str]

DigitValue(ch) ==
    CASE ch = "0" -> 0 [] ch = "1" -> 1 [] ch = "2" -> 2 [] ch = "3" -> 3
      [] ch = "4" -> 4 [] ch = "5" -> 5 [] ch = "6" -> 6 [] ch = "7" -> 7
      [] ch = "8" -> 8 [] ch = "9" -> 9

\* the decimal value of a string of digits
RECURSIVE Decimal(_)
Decimal(num_str) ==
    IF num_str = <<>> THEN 0
    ELSE 10 * Decimal(SubSeq(num_str, 1, Len(num_str) - 1))
         + DigitValue(num_str[Len(num_str)])

\* num_str.parse::<i64>() on the digits read, Err when the value is above
\* the largest integer
number_token(d, line, column) ==
    IF Decimal(d.num_str) > IntMax
    THEN LexErr(d.lexer, "Invalid number", line, column)
    ELSE LexOk(d.lexer, TNumber(Decimal(d.num_str)), line, column)

read_number(src, lx, line, column) ==
    number_token(read_digits(src, lx, <<>>), line, column)

\* the loop of read_identifier: the String and the lexer behind it
RECURSIVE read_ident_chars(_, _, _)
read_ident_chars(src, lx, ident) ==
    IF ~is_at_end(src, lx)
       /\ (is_alphanumeric(current_char(src, lx)) \/ current_char(src, lx) = "_")
    THEN read_ident_chars(src, advance(src, lx), ident \o current_char(src, lx))
    ELSE [lexer |-> lx, ident |-> ident]

\* `match ident.as_str()`: the reserved words
Keywords ==
    [w \in {"func", "let", "if", "else", "while", "return"} |->
        CASE w = "func" -> "Func" [] w = "let" -> "Let" [] w = "if" -> "If"
          [] w = "else" -> "Else" [] w = "while" -> "While"
          [] w = "return" -> "Return"]

identifier_token(r, line, column) ==
    LexOk(r.lexer,
          IF r.ident \in DOMAIN Keywords THEN TKind(Keywords[r.ident])
          ELSE TIdent(r.ident),
          line, column)

read_identifier(src, lx, line, column) ==
    identifier_token(read_ident_chars(src, lx, ""), line, column)

\* next_token on the character ch under the cursor, which is at (line, column)
next_token_at(src, lx, ch, line, column) ==
    IF ch \in DOMAIN SingleCharTokens
    THEN LexOk(advance(src, lx), TKind(SingleCharTokens[ch]), line, column)
    ELSE IF ch \in DOMAIN TwoCharOperators
    THEN two_char_operator(src, advance(src, lx), ch, line, column)
    ELSE IF is_ascii_digit(ch) THEN read_number(src, lx, line, column)
    ELSE IF is_alphabetic(ch) \/ ch = "_" THEN read_identifier(src, lx, line, column)
    ELSE LexErr(lx, "Unexpected character '" \o ch \o "'", line, column)

\* `let start_line = self.line; let start_column = self.column;`
mark_start(lx) == [lx EXCEPT !.start = lx.position]

next_token(src, lx) ==
    next_token_at(src, mark_start(lx), current_char(src, lx), lx.line, lx.column)

\* mutant: the loop of tokenize ends without the end-of-input token
tokenize_end_bare(toks, lx) == toks

\* tokens.push(Token::new(TokenType::Eof, self.line, self.column))
tokenize_end(toks, lx) == Append(toks, Token(TKind("Eof"), lx.line, lx.column))

\* Lexer::tokenize as one function: the tokens, or the error
RECURSIVE tokenize_from(_, _, _)
tokenize_token(src, r, toks) ==
    IF r.ok THEN tokenize_from(src, r.lexer, Append(toks, r.token))
    ELSE [ok |-> FALSE, tokens |-> toks, err |-> r.err]

tokenize_after_whitespace(src, w, toks) ==
    IF is_at_end(src, w)
    THEN [ok |-> TRUE, tokens |-> tokenize_end(toks, w), err |-> NoError]
    ELSE tokenize_token(src, next_token(src, w), toks)

tokenize_from(src, lx, toks) ==
    tokenize_after_whitespace(src, skip_whitespace(src, lx), toks)

tokenize(src) == tokenize_from(src, Lexer_new, <<>>)

(***************************************************************************)
(* The sources the lexer is run on: every string of at most MaxChars       *)
(* characters of an alphabet with a member of each class of characters,    *)
(* every single character of the language, and the reserved words.         *)
(***************************************************************************)
LexAlphabet ==
    {"a", "_", "1", "9", " ", "\n", "\t", "=", "&", "|", "(", "@",
     "U+00E9", "U+0663"}

\* the characters of the language (spec 4.1)
LanguageChars ==
    AsciiLetters \cup AsciiDigits \cup {"_", " ", "\t", "\r", "\n"}
    \cup DOMAIN SingleCharTokens \cup DOMAIN TwoCharOperators

OtherChars == {"@", "#", "U+0000", "U+00A0"} \cup UnicodeLetters \cup UnicodeNumerics

Chars(str) == [i \in 1..Len(str) |-> str[i]]

LexSources ==
    SeqsUpTo(LexAlphabet, MaxChars)
    \cup {<<ch>> : ch \in LanguageChars \cup OtherChars}
    \cup {<<ch, "=">> : ch \in DOMAIN TwoCharOperators}
    \cup {<<"f", "u", "n", "c">>, <<"l", "e", "t">>, <<"i", "f">>,
          <<"e", "l", "s", "e">>, <<"w", "h", "i", "l", "e">>,
          <<"r", "e", "t", "u", "r", "n">>, <<"r", "e", "t", "u", "r", "n", "s">>,
          <<"x", "\r", "\n", "\t", "y", "\n", "\n", " ", "&", "&", "&">>,
          <<"1", "\n", " ", "1", "9", "9", "9">>}

InitLex ==
    /\ source \in LexSources
    /\ pc = "lex"
    /\ lexer = Lexer_new
    /\ tokens = <<>>
    /\ error = NoError
    /\ program = <<>>
    /\ an = AnNew
    /\ cg = CgIdle
    /\ stack = <<>>
    /\ output = <<>>
    /\ result = 0
    /\ jit = "none"
    /\ returned = NotReturned

\* the loop of tokenize at the end of the input: push Eof and break
TokenizeEnd ==
    /\ pc = "lex"
    /\ is_at_end(source, skip_whitespace(source, lexer))
    /\ lexer' = mark_start(skip_whitespace(source, lexer))
    /\ tokens' = tokenize_end(tokens, skip_whitespace(source, lexer))
    /\ pc' = "lexed"
    /\ UNCHANGED <<program, an, cg, stack, output, result, source, error, jit, returned>>

\* one iteration of the loop of tokenize: skip_whitespace, next_token()?, push
TokenizeToken ==
    /\ pc = "lex"
    /\ ~is_at_end(source, skip_whitespace(source, lexer))
    /\ LET r == next_token(source, skip_whitespace(source, lexer))
       IN  /\ lexer' = r.lexer
           /\ tokens' = IF r.ok THEN Append(tokens, r.token) ELSE tokens
           /\ error' = r.err
           /\ pc' = IF r.ok THEN "lex" ELSE "lex_err"
    /\ UNCHANGED <<program, an, cg, stack, output, result, source, jit, returned>>

NextLex == TokenizeEnd \/ TokenizeToken

SpecLex == InitLex /\ [][NextLex]_vars

(***************************************************************************)
(* Reference vocabulary of the properties of the lexer.                    *)
(***************************************************************************)
Whitespace == {" ", "\t", "\r", "\n"}

\* the 1-based line and column of the character at the 0-based position p:
\* a newline before it starts a new line, every other character is a column
NewlinesBefore(src, p) == {j \in 1..p : src[j] = "\n"}
LineAt(src, p) == 1 + Cardinality(NewlinesBefore(src, p))
ColumnAt(src, p) ==
    IF NewlinesBefore(src, p) = {} THEN p + 1
    ELSE p + 1 - (CHOOSE j \in NewlinesBefore(src, p) :
                     \A k \in NewlinesBefore(src, p) : k <= j)

LastToken == tokens[Len(tokens)]

(***************************************************************************)
(* C12: when tokenize returns Ok the token sequence is not empty, its      *)
(* last token is the end-of-input token and no earlier token is one.       *)
(***************************************************************************)
C12_SingleEof ==
    /\ pc = "lexed" =>
          /\ tokens # <<>>
          /\ LastToken.typ.kind = "Eof"
          /\ \A i \in 1..(Len(tokens) - 1) : tokens[i].typ.kind # "Eof"
    /\ pc = "lex" => \A i \in 1..Len(tokens) : tokens[i].typ.kind # "Eof"

\* a source of two tokens was tokenized: three tokens with the Eof
C12_Witness ==
    /\ pc = "lexed"
    /\ source = <<"a", " ", "1">>
    /\ Len(tokens) = 3
    /\ tokens[3].typ.kind = "Eof"

(***************************************************************************)
(* C13: the lexer accepts only the ASCII character set of the language:    *)
(* when tokenize returns Ok every character of the source is whitespace,   *)
(* an ASCII digit, an ASCII letter, the underscore or a character of a     *)
(* punctuator or operator; any other character is a lexical error.         *)
(***************************************************************************)
C13_AsciiOnly ==
    pc = "lexed" => \A i \in 1..Len(source) : source[i] \in LanguageChars

(***************************************************************************)
(* C14: positions are 1-based and exact: the cursor is at the line and     *)
(* column of its position, where a newline starts a new line at column 1   *)
(* and every other character is one column; every token carries the line   *)
(* and column of its first character, and every lexical error those of     *)
(* the first character of the offending lexeme.                            *)
(***************************************************************************)
C14_ExactPositions ==
    pc \in {"lex", "lexed", "lex_err"} /\ source # <<>> =>
        /\ lexer.line = LineAt(source, lexer.position)
        /\ lexer.column = ColumnAt(source, lexer.position)
        /\ pc # "lex_err" /\ tokens # <<>> =>
              /\ LastToken.line = LineAt(source, lexer.start)
              /\ LastToken.column = ColumnAt(source, lexer.start)
              /\ LastToken.line >= 1 /\ LastToken.column >= 1
              /\ IF LastToken.typ.kind = "Eof" THEN lexer.start = Len(source)
                 ELSE source[lexer.start + 1] \notin Whitespace
        /\ pc = "lex_err" =>
              /\ error.line = LineAt(source, lexer.start)
              /\ error.column = ColumnAt(source, lexer.start)
              /\ error.line >= 1 /\ error.column >= 1
              /\ \/ error.msg = "Unexpected character '" \o source[lexer.start + 1] \o "'"
                 \/ /\ error.msg = "Invalid number"
                    /\ source[lexer.start + 1] \in AsciiDigits

\* on "x\r\n\ty\n\n &&&" the tokens x, y and && were read and the third &
\* is reported at line 4, column 4
C14_Witness ==
    /\ source = <<"x", "\r", "\n", "\t", "y", "\n", "\n", " ", "&", "&", "&">>
    /\ pc = "lex_err"
    /\ Len(tokens) = 3
    /\ tokens[2].line = 2 /\ tokens[2].column = 2
    /\ tokens[3].line = 4 /\ tokens[3].column = 2
    /\ error.line = 4 /\ error.column = 4

(***************************************************************************)
(* parser.rs: Parser.  `toks` is the Vec<Token>, which ends with the Eof    *)
(* token; `cur` is Parser::current, the 0-based index of the current       *)
(* token.  A Result<T, String> is a record: ok, the parser's position      *)
(* behind what was parsed, the T in `node`, the error in `err`.            *)
(***************************************************************************)
current_token(toks, cur) == toks[cur + 1]

parser_is_at_end(toks, cur) == current_token(toks, cur).typ.kind = "Eof"

\* check compares the discriminant only
check(toks, cur, kind) ==
    ~parser_is_at_end(toks, cur) /\ current_token(toks, cur).typ.kind = kind

parser_advance(toks, cur) == IF parser_is_at_end(toks, cur) THEN cur ELSE cur + 1

ParseOk(cur, node) == [ok |-> TRUE, current |-> cur, node |-> node, err |-> NoError]

\* Err(self.error(msg)): the message and the position of the current token
ParseErr(toks, cur, msg) ==
    [ok |-> FALSE, current |-> cur, node |-> <<>>,
     err |-> [msg |-> msg, line |-> current_token(toks, cur).line,
              column |-> current_token(toks, cur).column]]

\* self.expect(kind)?, then Ok(node)
expect(toks, cur, kind, node) ==
    IF check(toks, cur, kind) THEN ParseOk(parser_advance(toks, cur), node)
    ELSE ParseErr(toks, cur, "Expected " \o kind)

\* the binary operators of parse_logic_or, parse_logic_and, parse_equality,
\* parse_relational, parse_add and parse_mul, by the kind of their token;
\* each function parses its operands with the next one, parse_mul with
\* parse_unary
LevelOps ==
    << [k \in {"Or"} |-> "Or"],
       [k \in {"And"} |-> "And"],
       [k \in {"Eq", "Ne"} |-> k],
       [k \in {"Lt", "Le", "Gt", "Ge"} |-> k],
       [k \in {"Plus", "Minus"} |-> IF k = "Plus" THEN "Add" ELSE "Sub"],
       [k \in {"Star", "Slash", "Percent"} |->
           IF k = "Star" THEN "Mul" ELSE IF k = "Slash" THEN "Div" ELSE "Mod"] >>

RECURSIVE parse_expr(_, _)
RECURSIVE parse_level(_, _, _)
RECURSIVE parse_level_loop(_, _, _)
RECURSIVE parse_unary(_, _)
RECURSIVE parse_primary(_, _)
RECURSIVE parse_arg_list(_, _)
RECURSIVE arg_list_loop(_, _, _)
RECURSIVE parse_statement(_, _)
RECURSIVE parse_block(_, _)
RECURSIVE block_loop(_, _, _)

\* mutant: every level parses its operands with parse_unary
parse_operand_flat(toks, cur, level) == parse_unary(toks, cur)

\* the operand of a level: the next level, parse_unary for parse_mul
parse_operand(toks, cur, level) ==
    IF level = Len(LevelOps) THEN parse_unary(toks, cur)
    ELSE parse_level(toks, cur, level + 1)

\* `let right = ..?; left = Expr::Binary { op, left, right }` and the loop again
fold_left(toks, left, op, right, level) ==
    IF ~right.ok THEN right
    ELSE parse_level_loop(toks, ParseOk(right.current,
                                        Binary(op, left.node, right.node)), level)

\* mutant: the right operand is parsed at the level of the operator itself
parse_level_loop_right(toks, left, level) ==
    IF ~left.ok THEN left
    ELSE IF ~parser_is_at_end(toks, left.current)
            /\ current_token(toks, left.current).typ.kind \in DOMAIN LevelOps[level]
    THEN fold_left(toks, left,
                   LevelOps[level][current_token(toks, left.current).typ.kind],
                   parse_level(toks, parser_advance(toks, left.current), level),
                   level)
    ELSE left

\* the while loop of a level, on the result `left` parsed so far
parse_level_loop(toks, left, level) ==
    IF ~left.ok THEN left
    ELSE IF ~parser_is_at_end(toks, left.current)
            /\ current_token(toks, left.current).typ.kind \in DOMAIN LevelOps[level]
    THEN fold_left(toks, left,
                   LevelOps[level][current_token(toks, left.current).typ.kind],
                   parse_operand(toks, parser_advance(toks, left.current), level),
                   level)
    ELSE left

parse_level(toks, cur, level) ==
    parse_level_loop(toks, parse_operand(toks, cur, level), level)

parse_logic_or(toks, cur) == parse_level(toks, cur, 1)

parse_expr(toks, cur) == parse_logic_or(toks, cur)

unary_node(op, operand) ==
    IF ~operand.ok THEN operand
    ELSE ParseOk(operand.current, Unary(op, operand.node))

parse_unary(toks, cur) ==
    IF check(toks, cur, "Bang") \/ check(toks, cur, "Minus")
    THEN unary_node(IF check(toks, cur, "Bang") THEN "Not" ELSE "Neg",
                    parse_unary(toks, parser_advance(toks, cur)))
    ELSE parse_primary(toks, cur)

\* self.expect(RParen)? after the arguments, then Expr::Call
call_node(toks, name, args) ==
    IF ~args.ok THEN args
    ELSE expect(toks, args.current, "RParen", Call(name, args.node))

\* self.expect(RParen)? after the expression in parentheses
paren_node(toks, expr) ==
    IF ~expr.ok THEN expr ELSE expect(toks, expr.current, "RParen", expr.node)

parse_primary(toks, cur) ==
    IF current_token(toks, cur).typ.kind = "Number"
    THEN ParseOk(parser_advance(toks, cur), Number(current_token(toks, cur).typ.n))
    ELSE IF current_token(toks, cur).typ.kind = "Ident"
    THEN IF check(toks, parser_advance(toks, cur), "LParen")
         THEN call_node(toks, current_token(toks, cur).typ.name,
                        parse_arg_list(toks, parser_advance(toks, cur) + 1))
         ELSE ParseOk(parser_advance(toks, cur),
                      Variable(current_token(toks, cur).typ.name))
    ELSE IF check(toks, cur, "LParen")
    THEN paren_node(toks, parse_expr(toks, parser_advance(toks, cur)))
    ELSE ParseErr(toks, cur, "Expected expression")

\* args.push(self.parse_expr()?) and the loop over the commas
arg_list_push(toks, arg, args) ==
    IF ~arg.ok THEN arg
    ELSE arg_list_loop(toks, arg.current, Append(args, arg.node))

arg_list_loop(toks, cur, args) ==
    IF check(toks, cur, "Comma")
    THEN arg_list_push(toks, parse_expr(toks, parser_advance(toks, cur)), args)
    ELSE ParseOk(cur, args)

parse_arg_list(toks, cur) ==
    IF ~check(toks, cur, "RParen")
    THEN arg_list_push(toks, parse_expr(toks, cur), <<>>)
    ELSE ParseOk(cur, <<>>)

\* `let value = self.parse_expr()?; self.expect(Semicolon)?` of VarDecl,
\* Assignment, Return and ExprStmt; kind picks the statement
semicolon_statement(toks, kind, name, value) ==
    IF ~value.ok THEN value
    ELSE expect(toks, value.current, "Semicolon",
                CASE kind = "VarDecl" -> VarDecl(name, value.node)
                  [] kind = "Assignment" -> Assignment(name, value.node)
                  [] kind = "Return" -> Return(value.node)
                  [] kind = "ExprStmt" -> ExprStmt(value.node))

\* self.expect(Assign)? behind the name of a `let`
var_decl_value(toks, name, assign) ==
    IF ~assign.ok THEN assign
    ELSE semicolon_statement(toks, "VarDecl", name, parse_expr(toks, assign.current))

\* VarDecl, behind the `let`
parse_var_decl(toks, cur) ==
    IF current_token(toks, cur).typ.kind # "Ident"
    THEN ParseErr(toks, cur, "Expected variable name")
    ELSE var_decl_value(toks, current_token(toks, cur).typ.name,
                        expect(toks, parser_advance(toks, cur), "Assign", <<>>))

if_else_node(condition, then_block, else_block) ==
    IF ~else_block.ok THEN else_block
    ELSE ParseOk(else_block.current, If(condition, then_block, <<else_block.node>>))

if_then_node(toks, condition, then_block) ==
    IF ~then_block.ok THEN then_block
    ELSE IF check(toks, then_block.current, "Else")
    THEN if_else_node(condition, then_block.node,
                      parse_block(toks, parser_advance(toks, then_block.current)))
    ELSE ParseOk(then_block.current, If(condition, then_block.node, <<>>))

if_condition(toks, condition) ==
    IF ~condition.ok THEN condition
    ELSE if_then_node(toks, condition.node, parse_block(toks, condition.current))

while_node(condition, body) ==
    IF ~body.ok THEN body ELSE ParseOk(body.current, While(condition, body.node))

while_condition(toks, condition) ==
    IF ~condition.ok THEN condition
    ELSE while_node(condition.node, parse_block(toks, condition.current))

\* mutant: an identifier at the head of a statement is always an assignment
is_assignment_any(toks, cur) == current_token(toks, cur).typ.kind = "Ident"

\* the look ahead of parse_statement: an identifier followed by `=`
is_assignment(toks, cur) ==
    /\ current_token(toks, cur).typ.kind = "Ident"
    /\ check(toks, parser_advance(toks, cur), "Assign")

\* mutant: the cursor stays behind the identifier
backtrack_none(cur) == cur

\* mutant: the cursor moves back over the identifier and the token before it
backtrack_twice(cur) == cur - 2

\* self.current -= 1
backtrack(cur) == cur - 1

\* the cursor the expression statement is parsed from: behind an identifier
\* the look ahead has advanced over it and found no `=`, and backtracks
statement_start(toks, cur) ==
    IF current_token(toks, cur).typ.kind = "Ident"
    THEN backtrack(parser_advance(toks, cur))
    ELSE cur

parse_statement(toks, cur) ==
    IF check(toks, cur, "Let") THEN parse_var_decl(toks, parser_advance(toks, cur))
    ELSE IF check(toks, cur, "If")
    THEN if_condition(toks, parse_expr(toks, parser_advance(toks, cur)))
    ELSE IF check(toks, cur, "While")
    THEN while_condition(toks, parse_expr(toks, parser_advance(toks, cur)))
    ELSE IF check(toks, cur, "Return")
    THEN semicolon_statement(toks, "Return", "",
                             parse_expr(toks, parser_advance(toks, cur)))
    ELSE IF is_assignment(toks, cur)
    THEN semicolon_statement(toks, "Assignment", current_token(toks, cur).typ.name,
                             parse_expr(toks, parser_advance(toks, cur) + 1))
    ELSE semicolon_statement(toks, "ExprStmt", "",
                             parse_expr(toks, statement_start(toks, cur)))

block_push(toks, stmt, block) ==
    IF ~stmt.ok THEN stmt ELSE block_loop(toks, stmt.current, Append(block, stmt.node))

block_loop(toks, cur, block) ==
    IF ~check(toks, cur, "RBrace") /\ ~parser_is_at_end(toks, cur)
    THEN block_push(toks, parse_statement(toks, cur), block)
    ELSE expect(toks, cur, "RBrace", block)

block_open(toks, lbrace) ==
    IF ~lbrace.ok THEN lbrace ELSE block_loop(toks, lbrace.current, <<>>)

parse_block(toks, cur) == block_open(toks, expect(toks, cur, "LBrace", <<>>))

\* the loop of parse_param_list over the commas
RECURSIVE param_list_loop(_, _, _)
param_list_loop(toks, cur, params) ==
    IF check(toks, cur, "Comma")
    THEN IF current_token(toks, parser_advance(toks, cur)).typ.kind = "Ident"
         THEN param_list_loop(toks, parser_advance(toks, cur) + 1,
                  Append(params, current_token(toks, parser_advance(toks, cur)).typ.name))
         ELSE ParseErr(toks, parser_advance(toks, cur), "Expected parameter name")
    ELSE ParseOk(cur, params)

parse_param_list(toks, cur) ==
    IF current_token(toks, cur).typ.kind = "Ident"
    THEN param_list_loop(toks, parser_advance(toks, cur),
                         <<current_token(toks, cur).typ.name>>)
    ELSE ParseOk(cur, <<>>)

function_node(name, params, body) ==
    IF ~body.ok THEN body
    ELSE ParseOk(body.current, Function(name, params.node, body.node))

function_body(toks, name, params, rparen) ==
    IF ~rparen.ok THEN rparen
    ELSE function_node(name, params, parse_block(toks, rparen.current))

function_rparen(toks, name, params) ==
    IF ~params.ok THEN params
    ELSE function_body(toks, name, params, expect(toks, params.current, "RParen", <<>>))

function_params(toks, name, lparen) ==
    IF ~lparen.ok THEN lparen
    ELSE function_rparen(toks, name, parse_param_list(toks, lparen.current))

function_name(toks, func) ==
    IF ~func.ok THEN func
    ELSE IF current_token(toks, func.current).typ.kind # "Ident"
    THEN ParseErr(toks, func.current, "Expected function name")
    ELSE function_params(toks, current_token(toks, func.current).typ.name,
                         expect(toks, parser_advance(toks, func.current), "LParen", <<>>))

parse_function(toks, cur) == function_name(toks, expect(toks, cur, "Func", <<>>))

\* Parser::parse: the loop over the functions up to the end of the input
RECURSIVE parse_loop(_, _, _)
parse_add_function(toks, func, functions) ==
    IF ~func.ok THEN func
    ELSE parse_loop(toks, func.current, Append(functions, func.node))

parse_loop(toks, cur, functions) ==
    IF ~parser_is_at_end(toks, cur)
    THEN parse_add_function(toks, parse_function(toks, cur), functions)
    ELSE ParseOk(cur, functions)

parse(toks) == parse_loop(toks, 0, <<>>)

(***************************************************************************)
(* The parser as a process: the token sequences it is run on, and the one  *)
(* step Parser::new(tokens).parse().                                       *)
(***************************************************************************)
\* longest function body, in tokens, of the exhaustive family
MaxTokens == 2

\* the tokens of a sequence of token types, on one line, closed by Eof
TokensOf(types) ==
    [i \in 1..(Len(types) + 1) |->
        IF i <= Len(types) THEN Token(types[i], 1, i) ELSE Token(TKind("Eof"), 1, i)]

BinaryTokens == UNION {DOMAIN LevelOps[l] : l \in 1..Len(LevelOps)}
UnaryTokens == {"Bang", "Minus"}

\* func main ( ) { body }
MainTokens(body) ==
    <<TKind("Func"), TIdent("main"), TKind("LParen"), TKind("RParen"),
      TKind("LBrace")>> \o body \o <<TKind("RBrace")>>

\* return e ;
ReturnTokens(e) == <<TKind("Return")>> \o e \o <<TKind("Semicolon")>>

A == <<TIdent("a")>>
B == <<TIdent("b")>>
C == <<TIdent("c")>>
Op(k) == <<TKind(k)>>
Paren(e) == Op("LParen") \o e \o Op("RParen")

\* the operands and operators of the expression families
ChainExpr(op1, op2) == A \o Op(op1) \o B \o Op(op2) \o C
ParenLeftExpr(op1, op2) == Paren(A \o Op(op1) \o B) \o Op(op2) \o C
ParenRightExpr(op1, op2) == A \o Op(op1) \o Paren(B \o Op(op2) \o C)
PrefixLeftExpr(u, op) == Op(u) \o A \o Op(op) \o B
PrefixRightExpr(u, op) == A \o Op(op) \o Op(u) \o B
PrefixChainExpr(u1, u2) == Op(u1) \o Op(u2) \o A

ExprFamily ==
    UNION {{ChainExpr(o1, o2), ParenLeftExpr(o1, o2), ParenRightExpr(o1, o2)} :
              o1 \in BinaryTokens, o2 \in BinaryTokens}
    \cup {PrefixLeftExpr(u, o) : u \in UnaryTokens, o \in BinaryTokens}
    \cup {PrefixRightExpr(u, o) : u \in UnaryTokens, o \in BinaryTokens}
    \cup {PrefixChainExpr(u1, u2) : u1 \in UnaryTokens, u2 \in UnaryTokens}

ExprInputs == {MainTokens(ReturnTokens(e)) : e \in ExprFamily}

\* the token types a function body is written with
BodyAlphabet ==
    {TNumber(1), TIdent("x")}
    \cup {TKind(k) : k \in {"Func", "Let", "If", "Else", "While", "Return", "Plus",
                                "Minus", "Bang", "Assign", "LParen", "RParen",
                                "LBrace", "RBrace", "Comma", "Semicolon"}}

ShortInputs ==
    {MainTokens(body) : body \in SeqsUpTo(BodyAlphabet, MaxTokens)}
    \cup SeqsUpTo(BodyAlphabet, MaxTokens - 1)

\* programs that use every production of the grammar
GrammarPrograms ==
    { <<TKind("Func"), TIdent("f"), TKind("LParen"), TIdent("x"), TKind("Comma"),
        TIdent("y"), TKind("RParen"), TKind("LBrace")>>
        \o ReturnTokens(<<TIdent("x"), TKind("Star"), TIdent("y")>>)
        \o <<TKind("RBrace")>>
        \o MainTokens(<<TKind("Let"), TIdent("x"), TKind("Assign"), TNumber(1),
                        TKind("Semicolon"),
                        TKind("If"), TIdent("x"), TKind("LBrace"),
                        TIdent("x"), TKind("Assign"), TNumber(2), TKind("Semicolon"),
                        TKind("RBrace"), TKind("Else"), TKind("LBrace"),
                        TKind("RBrace")>>
                      \o ReturnTokens(<<TIdent("f"), TKind("LParen"), TIdent("x"),
                                        TKind("Comma"), TNumber(2), TKind("RParen")>>)),
      MainTokens(<<TKind("While"), TIdent("x"), TKind("Lt"), TNumber(2),
                   TKind("LBrace"),
                   TIdent("f"), TKind("LParen"), TKind("RParen"), TKind("Semicolon"),
                   TKind("RBrace"),
                   TKind("If"), TKind("Bang"), TIdent("x"), TKind("LBrace"),
                   TKind("RBrace")>>
                 \o ReturnTokens(<<TKind("LParen"), TKind("Minus"), TIdent("x"),
                                   TKind("RParen")>>)) }

\* a program with one token left out, put in or replaced
Edits(types) ==
    {SubSeq(types, 1, i - 1) \o SubSeq(types, i + 1, Len(types)) : i \in 1..Len(types)}
    \cup {SubSeq(types, 1, i) \o <<t>> \o SubSeq(types, i + 1, Len(types)) :
              i \in 0..Len(types), t \in BodyAlphabet}
    \cup {SubSeq(types, 1, i - 1) \o <<t>> \o SubSeq(types, i + 1, Len(types)) :
              i \in 1..Len(types), t \in BodyAlphabet}

EditInputs == GrammarPrograms \cup UNION {Edits(p) : p \in GrammarPrograms}

\* return ( ) ;  and the program of no function
CornerInputs == {MainTokens(ReturnTokens(Paren(<<>>))), <<>>}

\* statements that begin with an identifier:
\*   x == 1;  f(1);  x + 1;  x;  x = 1;  x = x == 1;
StatementFamily ==
    {<<TIdent("x"), TKind("Eq"), TNumber(1), TKind("Semicolon")>>,
     <<TIdent("f"), TKind("LParen"), TNumber(1), TKind("RParen"), TKind("Semicolon")>>,
     <<TIdent("x"), TKind("Plus"), TNumber(1), TKind("Semicolon")>>,
     <<TIdent("x"), TKind("Semicolon")>>,
     <<TIdent("x"), TKind("Assign"), TNumber(1), TKind("Semicolon")>>,
     <<TIdent("x"), TKind("Assign"), TIdent("x"), TKind("Eq"), TNumber(1),
       TKind("Semicolon")>>}

StatementInputs == {MainTokens(stmt) : stmt \in StatementFamily}

ParseInputs ==
    {TokensOf(types) : types \in ExprInputs \cup ShortInputs \cup EditInputs
                                \cup CornerInputs \cup StatementInputs}

InitParse ==
    /\ tokens \in ParseInputs
    /\ pc = "lexed"
    /\ program = <<>>
    /\ error = NoError
    /\ source = <<>>
    /\ lexer = Lexer_new
    /\ an = AnNew
    /\ cg = CgIdle
    /\ stack = <<>>
    /\ output = <<>>
    /\ result = 0
    /\ jit = "none"
    /\ returned = NotReturned

\* let program = parser.parse()?, on Ok
Parse ==
    /\ pc = "lexed"
    /\ parse(tokens).ok
    /\ program' = parse(tokens).node
    /\ pc' = "parsed"
    /\ UNCHANGED <<an, cg, stack, output, result, source, lexer, tokens, error, jit,
                   returned>>

\* let program = parser.parse()?, on Err
ParseFail ==
    /\ pc = "lexed"
    /\ ~parse(tokens).ok
    /\ error' = parse(tokens).err
    /\ pc' = "parse_err"
    /\ UNCHANGED <<program, an, cg, stack, output, result, source, lexer, tokens, jit,
                   returned>>

NextParse == Parse \/ ParseFail

SpecParse == InitParse /\ [][NextParse]_vars

(***************************************************************************)
(* Reference vocabulary of the parser's contract: the precedence table,    *)
(* and the language of the grammar                                         *)
(*   Program = { Function } .                                              *)
(*   Function = "func" IDENT "(" [ IDENT { "," IDENT } ] ")" Block .       *)
(*   Block = "{" { Statement } "}" .                                       *)
(*   Statement = "let" IDENT "=" Expr ";" | IDENT "=" Expr ";"             *)
(*             | "if" Expr Block [ "else" Block ] | "while" Expr Block     *)
(*             | "return" Expr ";" | Expr ";" .                            *)
(* as the set of positions a derivation that starts at position i can end  *)
(* at.  Positions are 1-based indices into the token sequence.             *)
(***************************************************************************)
\* the level of a binary operator token, lowest first
Level(k) ==
    CASE k = "Or" -> 1
      [] k = "And" -> 2
      [] k \in {"Eq", "Ne"} -> 3
      [] k \in {"Lt", "Le", "Gt", "Ge"} -> 4
      [] k \in {"Plus", "Minus"} -> 5
      [] k \in {"Star", "Slash", "Percent"} -> 6

\* the operator a token stands for
BinOpOf(k) ==
    CASE k = "Plus" -> "Add" [] k = "Minus" -> "Sub" [] k = "Star" -> "Mul"
      [] k = "Slash" -> "Div" [] k = "Percent" -> "Mod" [] OTHER -> k

UnaryOpOf(k) == IF k = "Bang" THEN "Not" ELSE "Neg"

\* the program whose main returns the expression e
ReturnProgram(e) == <<Function("main", <<>>, <<Return(e)>>)>>

\* (a op1 b) op2 c and a op1 (b op2 c)
GroupLeft(op1, op2) ==
    Binary(BinOpOf(op2), Binary(BinOpOf(op1), Variable("a"), Variable("b")),
           Variable("c"))
GroupRight(op1, op2) ==
    Binary(BinOpOf(op1), Variable("a"),
           Binary(BinOpOf(op2), Variable("b"), Variable("c")))

\* the token types between `return` and `;` of func main ( ) { return .. ; }
ReturnedTypes == [i \in 1..(Len(tokens) - 9) |-> tokens[i + 6].typ]

\* the parser has accepted func main ( ) { return e ; }
Parsed(e) == pc = "parsed" /\ tokens = TokensOf(MainTokens(ReturnTokens(e)))

\* e is the token sequence the family builds from the kinds at its places
Binaries(e, i, j) == e[i].kind \in BinaryTokens /\ e[j].kind \in BinaryTokens
IsChain(e) == Len(e) = 5 /\ Binaries(e, 2, 4) /\ e = ChainExpr(e[2].kind, e[4].kind)
IsParenLeft(e) ==
    Len(e) = 7 /\ Binaries(e, 3, 6) /\ e = ParenLeftExpr(e[3].kind, e[6].kind)
IsParenRight(e) ==
    Len(e) = 7 /\ Binaries(e, 2, 5) /\ e = ParenRightExpr(e[2].kind, e[5].kind)
IsPrefixLeft(e) ==
    /\ Len(e) = 4 /\ e[1].kind \in UnaryTokens /\ e[3].kind \in BinaryTokens
    /\ e = PrefixLeftExpr(e[1].kind, e[3].kind)
IsPrefixRight(e) ==
    /\ Len(e) = 4 /\ e[2].kind \in BinaryTokens /\ e[3].kind \in UnaryTokens
    /\ e = PrefixRightExpr(e[3].kind, e[2].kind)
IsPrefixChain(e) ==
    /\ Len(e) = 3 /\ e[1].kind \in UnaryTokens /\ e[2].kind \in UnaryTokens
    /\ e = PrefixChainExpr(e[1].kind, e[2].kind)

ExprTokens == {TokensOf(types) : types \in ExprInputs}

KindAt(toks, i) == IF i \in 1..Len(toks) THEN toks[i].typ.kind ELSE "None"

\* the positions behind a token of kind k that stands at one of the positions
Behind(toks, positions, k) == {j + 1 : j \in {p \in positions : KindAt(toks, p) = k}}

RECURSIVE ExprEnds(_, _)
RECURSIVE UnaryEnds(_, _)
RECURSIVE ArgsEnds(_, _)
RECURSIVE StatementEnds(_, _)
RECURSIVE BlockEnds(_, _)
RECURSIVE StatementsEnds(_, _)

\* Primary = NUMBER | IDENT | IDENT "(" [ Expr { "," Expr } ] ")" | "(" Expr ")"
PrimaryEnds(toks, i) ==
    CASE KindAt(toks, i) = "Number" -> {i + 1}
      [] KindAt(toks, i) = "Ident" ->
            {i + 1}
            \cup (IF KindAt(toks, i + 1) = "LParen"
                  THEN Behind(toks, {i + 2} \cup ArgsEnds(toks, i + 2), "RParen")
                  ELSE {})
      [] KindAt(toks, i) = "LParen" -> Behind(toks, ExprEnds(toks, i + 1), "RParen")
      [] OTHER -> {}

\* Unary = ( "!" | "-" ) Unary | Primary
UnaryEnds(toks, i) ==
    IF KindAt(toks, i) \in UnaryTokens THEN UnaryEnds(toks, i + 1)
    ELSE PrimaryEnds(toks, i)

\* a sequence of binary operators and operands behind the first operand
OperandsEnds(toks, ends) ==
    ends \cup UNION {ExprEnds(toks, j + 1) :
                        j \in {p \in ends : KindAt(toks, p) \in BinaryTokens}}

\* Expr, without its tree: Unary { binary-operator Unary }
ExprEnds(toks, i) == OperandsEnds(toks, UnaryEnds(toks, i))

\* Expr { "," Expr }
MoreArgsEnds(toks, ends) ==
    ends \cup UNION {ArgsEnds(toks, j) : j \in Behind(toks, ends, "Comma")}

ArgsEnds(toks, i) == MoreArgsEnds(toks, ExprEnds(toks, i))

\* "else" Block, or nothing
ElseEnds(toks, ends) ==
    ends \cup UNION {BlockEnds(toks, j) : j \in Behind(toks, ends, "Else")}

\* the blocks that start at one of the positions
BlocksAt(toks, positions) == UNION {BlockEnds(toks, j) : j \in positions}

StatementEnds(toks, i) ==
    (IF KindAt(toks, i) = "Let" /\ KindAt(toks, i + 1) = "Ident"
        /\ KindAt(toks, i + 2) = "Assign"
     THEN Behind(toks, ExprEnds(toks, i + 3), "Semicolon") ELSE {})
    \cup (IF KindAt(toks, i) = "Ident" /\ KindAt(toks, i + 1) = "Assign"
          THEN Behind(toks, ExprEnds(toks, i + 2), "Semicolon") ELSE {})
    \cup (IF KindAt(toks, i) = "If"
          THEN ElseEnds(toks, BlocksAt(toks, ExprEnds(toks, i + 1))) ELSE {})
    \cup (IF KindAt(toks, i) = "While"
          THEN BlocksAt(toks, ExprEnds(toks, i + 1)) ELSE {})
    \cup (IF KindAt(toks, i) = "Return"
          THEN Behind(toks, ExprEnds(toks, i + 1), "Semicolon") ELSE {})
    \cup Behind(toks, ExprEnds(toks, i), "Semicolon")

\* { Statement }
MoreStatementsEnds(toks, i, ends) ==
    {i} \cup UNION {StatementsEnds(toks, j) : j \in ends}

StatementsEnds(toks, i) == MoreStatementsEnds(toks, i, StatementEnds(toks, i))

BlockEnds(toks, i) ==
    IF KindAt(toks, i) = "LBrace"
    THEN Behind(toks, StatementsEnds(toks, i + 1), "RBrace") ELSE {}

\* { "," IDENT }
RECURSIVE ParamsEnds(_, _)
ParamsEnds(toks, i) ==
    {i} \cup (IF KindAt(toks, i) = "Comma" /\ KindAt(toks, i + 1) = "Ident"
              THEN ParamsEnds(toks, i + 2) ELSE {})

FunctionEnds(toks, i) ==
    IF KindAt(toks, i) = "Func" /\ KindAt(toks, i + 1) = "Ident"
       /\ KindAt(toks, i + 2) = "LParen"
    THEN BlocksAt(toks, Behind(toks,
                               {i + 3} \cup (IF KindAt(toks, i + 3) = "Ident"
                                             THEN ParamsEnds(toks, i + 4) ELSE {}),
                               "RParen"))
    ELSE {}

RECURSIVE ProgramEnds(_, _)
ProgramEnds(toks, i) ==
    {i} \cup UNION {ProgramEnds(toks, j) : j \in FunctionEnds(toks, i)}

\* the token sequence, closed by its Eof, is a Program
Derivable(toks) ==
    KindAt(toks, Len(toks)) = "Eof" /\ Len(toks) \in ProgramEnds(toks, 1)

\* C15: the binary operator of the higher level binds tighter whatever the
\* order of the two, a prefix operator binds tighter than every binary
\* operator, parentheses override the levels, and each of these expressions
\* is accepted
PrecedenceOf(e) ==
    /\ IsChain(e) /\ Level(e[2].kind) > Level(e[4].kind)
          => program = ReturnProgram(GroupLeft(e[2].kind, e[4].kind))
    /\ IsChain(e) /\ Level(e[2].kind) < Level(e[4].kind)
          => program = ReturnProgram(GroupRight(e[2].kind, e[4].kind))
    /\ IsParenLeft(e) => program = ReturnProgram(GroupLeft(e[3].kind, e[6].kind))
    /\ IsParenRight(e) => program = ReturnProgram(GroupRight(e[2].kind, e[5].kind))
    /\ IsPrefixLeft(e)
          => program = ReturnProgram(Binary(BinOpOf(e[3].kind),
                           Unary(UnaryOpOf(e[1].kind), Variable("a")), Variable("b")))
    /\ IsPrefixRight(e)
          => program = ReturnProgram(Binary(BinOpOf(e[2].kind), Variable("a"),
                           Unary(UnaryOpOf(e[3].kind), Variable("b"))))

C15_Precedence ==
    /\ Parsed(ReturnedTypes) => PrecedenceOf(ReturnedTypes)
    /\ tokens \in ExprTokens => pc # "parse_err"

C15_Witness ==
    /\ Parsed(ChainExpr("Or", "And"))
    /\ program = ReturnProgram(GroupRight("Or", "And"))

\* C16: two binary operators of one level group to the left, and a chain
\* of prefix operators groups to the right
AssociativityOf(e) ==
    /\ IsChain(e) /\ Level(e[2].kind) = Level(e[4].kind)
          => program = ReturnProgram(GroupLeft(e[2].kind, e[4].kind))
    /\ IsPrefixChain(e)
          => program = ReturnProgram(Unary(UnaryOpOf(e[1].kind),
                           Unary(UnaryOpOf(e[2].kind), Variable("a"))))

C16_Associativity == Parsed(ReturnedTypes) => AssociativityOf(ReturnedTypes)

C16_Witness ==
    /\ Parsed(ChainExpr("Minus", "Minus"))
    /\ program = ReturnProgram(GroupLeft("Minus", "Minus"))

\* C17: parse returns Ok exactly on the token sequences that are a Program
\* of the grammar
C17_AcceptsGrammar ==
    /\ pc = "parsed" => Derivable(tokens)
    /\ pc = "parse_err" => ~Derivable(tokens)

\* func f ( x , ) { } is rejected: the comma must be followed by a name
C17_Witness ==
    /\ pc = "parse_err"
    /\ \E i \in 1..Len(tokens) - 1 :
          KindAt(tokens, i) = "Comma" /\ KindAt(tokens, i + 1) = "RParen"
          /\ error.msg = "Expected parameter name"
          /\ error.column = tokens[i + 1].column

(***************************************************************************)
(* lib.rs: compile_and_run, the pipeline of the lexer, the parser, the     *)
(* semantic analyzer, the code generator and the run of main.  pc is the   *)
(* place in compile_and_run; jit is the JIT module the CodeGenerator owns: *)
(* "none" before CodeGenerator::new(), "building", "finalized" after       *)
(* finalize_definitions, "dropped" when the CodeGenerator is dropped.      *)
(***************************************************************************)
\* a program that calls a function:
\*   func f(a){return a+1;}
\*   func main(){return f(2);}
SrcCall ==
    <<"f", "u", "n", "c", " ", "f", "(", "a", ")", "{", "r", "e", "t", "u", "r", "n",
      " ", "a", "+", "1", ";", "}", "\n", "f", "u", "n", "c", " ", "m", "a", "i",
      "n", "(", ")", "{", "r", "e", "t", "u", "r", "n", " ", "f", "(", "2", ")", ";",
      "}">>

\* a program that loops, prints and branches:
\*   func main(){let i=0;
\*       while i<2{i=i+print(1);}
\*       if i==2{i=7;}return i;}
SrcLoop ==
    <<"f", "u", "n", "c", " ", "m", "a", "i", "n", "(", ")", "{", "l", "e", "t", " ",
      "i", "=", "0", ";", "\n", "\t", "w", "h", "i", "l", "e", " ", "i", "<", "2",
      "{", "i", "=", "i", "+", "p", "r", "i", "n", "t", "(", "1", ")", ";", "}",
      "\n", "\t", "i", "f", " ", "i", "=", "=", "2", "{", "i", "=", "7", ";", "}",
      "r", "e", "t", "u", "r", "n", " ", "i", ";", "}">>

\* scenario S1 of the spec, with a literal the model's integers hold:
\*   func main() { let x = 4; return x; }
SrcS1 ==
    <<"f", "u", "n", "c", " ", "m", "a", "i", "n", "(", ")", " ", "{", " ", "l", "e",
      "t", " ", "x", " ", "=", " ", "4", ";", " ", "r", "e", "t", "u", "r", "n", " ",
      "x", ";", " ", "}">>

\* the lexer fails:
\*   func main() { return 1 & 2; }
SrcLexError ==
    <<"f", "u", "n", "c", " ", "m", "a", "i", "n", "(", ")", " ", "{", " ", "r", "e",
      "t", "u", "r", "n", " ", "1", " ", "&", " ", "2", ";", " ", "}">>

\* the lexer fails, and the parser would fail before the place:
\*   func main( { return 1 @ 2; }
SrcLexFirst ==
    <<"f", "u", "n", "c", " ", "m", "a", "i", "n", "(", " ", "{", " ", "r", "e", "t",
      "u", "r", "n", " ", "1", " ", "@", " ", "2", ";", " ", "}">>

\* the parser fails:
\*   func main() { return 1 }
SrcParseError ==
    <<"f", "u", "n", "c", " ", "m", "a", "i", "n", "(", ")", " ", "{", " ", "r", "e",
      "t", "u", "r", "n", " ", "1", " ", "}">>

\* the parser fails, and the analyzer would fail:
\*   func f() { return x }
SrcParseFirst ==
    <<"f", "u", "n", "c", " ", "f", "(", ")", " ", "{", " ", "r", "e", "t", "u", "r",
      "n", " ", "x", " ", "}">>

\* the analyzer fails:
\*   func main() { return x; }
SrcSemError ==
    <<"f", "u", "n", "c", " ", "m", "a", "i", "n", "(", ")", " ", "{", " ", "r", "e",
      "t", "u", "r", "n", " ", "x", ";", " ", "}">>

\* the analyzer fails: no main:
\*   func f() { return 1; }
SrcNoMain ==
    <<"f", "u", "n", "c", " ", "f", "(", ")", " ", "{", " ", "r", "e", "t", "u", "r",
      "n", " ", "1", ";", " ", "}">>

\* the analyzer fails, and the code generator would fail:
\*   func print_int(a, b) { return x; } func main() { return print(1); }
SrcSemFirst ==
    <<"f", "u", "n", "c", " ", "p", "r", "i", "n", "t", "_", "i", "n", "t", "(", "a",
      ",", " ", "b", ")", " ", "{", " ", "r", "e", "t", "u", "r", "n", " ", "x", ";",
      " ", "}", " ", "f", "u", "n", "c", " ", "m", "a", "i", "n", "(", ")", " ", "{",
      " ", "r", "e", "t", "u", "r", "n", " ", "p", "r", "i", "n", "t", "(", "1", ")",
      ";", " ", "}">>

\* the code generator fails: print_int is declared with two parameters:
\*   func print_int(a, b) { return a; } func main() { return print(1); }
SrcCodegenError ==
    <<"f", "u", "n", "c", " ", "p", "r", "i", "n", "t", "_", "i", "n", "t", "(", "a",
      ",", " ", "b", ")", " ", "{", " ", "r", "e", "t", "u", "r", "n", " ", "a", ";",
      " ", "}", " ", "f", "u", "n", "c", " ", "m", "a", "i", "n", "(", ")", " ", "{",
      " ", "r", "e", "t", "u", "r", "n", " ", "p", "r", "i", "n", "t", "(", "1", ")",
      ";", " ", "}">>

\* a user function of the name of the runtime's print_int:
\*   func print_int(a) { return 0; } func main() { return print(7); }
SrcPrintInt ==
    <<"f", "u", "n", "c", " ", "p", "r", "i", "n", "t", "_", "i", "n", "t", "(", "a",
      ")", " ", "{", " ", "r", "e", "t", "u", "r", "n", " ", "0", ";", " ", "}", " ",
      "f", "u", "n", "c", " ", "m", "a", "i", "n", "(", ")", " ", "{", " ", "r", "e",
      "t", "u", "r", "n", " ", "p", "r", "i", "n", "t", "(", "7", ")", ";", " ", "}">>

\* a user function named print:
\*   func print(a) { return 0; } func main() { return 1 + print(2); }
SrcUserPrint ==
    <<"f", "u", "n", "c", " ", "p", "r", "i", "n", "t", "(", "a", ")", " ", "{", " ",
      "r", "e", "t", "u", "r", "n", " ", "0", ";", " ", "}", " ", "f", "u", "n", "c",
      " ", "m", "a", "i", "n", "(", ")", " ", "{", " ", "r", "e", "t", "u", "r", "n",
      " ", "1", " ", "+", " ", "p", "r", "i", "n", "t", "(", "2", ")", ";", " ", "}">>

\* the empty source:
\*   
SrcEmpty ==
    <<>>

PipeSources ==
    {SrcCall, SrcLoop, SrcS1, SrcLexError, SrcLexFirst,
     SrcParseError, SrcParseFirst, SrcSemError, SrcNoMain,
     SrcSemFirst, SrcCodegenError, SrcPrintInt, SrcUserPrint,
     SrcEmpty}

InitPipe ==
    /\ source \in PipeSources
    /\ pc = "lex"
    /\ lexer = Lexer_new
    /\ tokens = <<>>
    /\ error = NoError
    /\ program = <<>>
    /\ an = AnNew
    /\ cg = CgIdle
    /\ stack = <<>>
    /\ output = <<>>
    /\ result = 0
    /\ jit = "none"
    /\ returned = NotReturned

\* let mut analyzer = SemanticAnalyzer::new()
NewAnalyzer ==
    /\ pc = "parsed"
    /\ an' = AnNew
    /\ pc' = "collect"
    /\ UNCHANGED <<program, cg, stack, output, result, source, lexer, tokens, error,
                   jit, returned>>

\* let mut codegen = CodeGenerator::new(): the JIT module is created
NewCodeGenerator ==
    /\ pc = "sem_ok"
    /\ cg' = CgIdle
    /\ jit' = "building"
    /\ pc' = "declare"
    /\ UNCHANGED <<program, an, stack, output, result, source, lexer, tokens, error,
                   returned>>

\* the places a stage leaves compile_and_run at with its Err
FailedStages == {"lex_err", "parse_err", "sem_err", "codegen_err"}

\* mutant: every error is reported as the parser's
stage_prefix_parser(stage) == "Parser error: "

\* the prefix map_err puts before the error of a stage
stage_prefix(stage) ==
    CASE stage = "lex_err" -> "Lexer error: "
      [] stage = "parse_err" -> "Parser error: "
      [] stage = "sem_err" -> "Semantic error: "
      [] stage = "codegen_err" -> "Codegen error: "

\* the locals of compile_and_run are dropped when it returns, the
\* CodeGenerator and its module among them if it was created
drop_locals(module) == IF module = "none" THEN "none" ELSE "dropped"

\* `.map_err(|e| format!("<stage> error: {}", e))?`: the Err is returned
ReturnErr ==
    /\ pc \in FailedStages
    /\ returned' = [done |-> TRUE, ok |-> FALSE, value |-> 0,
                    msg |-> StageError(stage_prefix(pc),
                                       IF pc = "sem_err" THEN an.err ELSE error)]
    /\ jit' = drop_locals(jit)
    /\ pc' = "returned"
    /\ UNCHANGED <<program, an, cg, stack, output, result, source, lexer, tokens, error>>

\* Ok(result), after main_fn() has returned
ReturnOk ==
    /\ pc = "done"
    /\ returned' = [done |-> TRUE, ok |-> TRUE, value |-> result,
                    msg |-> StageError("", NoError)]
    /\ jit' = drop_locals(jit)
    /\ pc' = "returned"
    /\ UNCHANGED <<program, an, cg, stack, output, result, source, lexer, tokens, error>>

NextPipe ==
    \/ TokenizeEnd \/ TokenizeToken
    \/ Parse \/ ParseFail
    \/ NewAnalyzer \/ CollectSignature \/ CheckMain \/ AnalyzeFunction \/ AnalyzeOk
    \/ NewCodeGenerator \/ DeclareFunction \/ CompileFunction \/ Finalize
    \/ InvokeMain \/ StepInstr \/ StepBranch \/ StepCall \/ StepPrint \/ StepReturn
    \/ ReturnErr \/ ReturnOk

SpecPipe == InitPipe /\ [][NextPipe]_vars

\* CodeGenerator::compile as one function of the program: the Err it
\* returns, "" for Ok
RECURSIVE declare_functions(_, _, _)
declare_functions(self, prog, i) ==
    IF i > Len(prog) THEN self
    ELSE declare_functions(declare_function(self, prog[i].name, Len(prog[i].params)),
                           prog, i + 1)

RECURSIVE compile_functions(_, _, _)
compile_functions(self, prog, i) ==
    IF i > Len(prog)
    THEN IF "main" \in DOMAIN self.functions THEN "" ELSE "No main function"
    ELSE IF compile_function(self, prog[i]).err # ""
    THEN compile_function(self, prog[i]).err
    ELSE compile_functions(self, prog, i + 1)

compile(prog) == compile_functions(declare_functions(CgIdle, prog, 1), prog, 1)

(***************************************************************************)
(* Reference vocabulary of the pipeline's contract: the stages in their    *)
(* order, and the first of them that fails on a source.                    *)
(***************************************************************************)
ParserPcs == {"lexed", "parsed", "parse_err"}
AnalyzerPcs == {"collect", "bodies", "sem_ok", "sem_err"}
CodegenPcs == {"declare", "define", "finalize", "compiled", "codegen_err"}
RunPcs == {"run", "done", "trap"}

NoFailure == StageError("", NoError)

FirstErrorCompiled(e) ==
    IF e # "" THEN StageError("Codegen error: ", CodegenError(e)) ELSE NoFailure
FirstErrorAnalyzed(prog, e) ==
    IF e # NoErr THEN StageError("Semantic error: ", e)
    ELSE FirstErrorCompiled(compile(prog))
FirstErrorParsed(p) ==
    IF ~p.ok THEN StageError("Parser error: ", p.err)
    ELSE FirstErrorAnalyzed(p.node, analyze(p.node))
FirstErrorLexed(t) ==
    IF ~t.ok THEN StageError("Lexer error: ", t.err)
    ELSE FirstErrorParsed(parse(t.tokens))

\* the prefixed error of the first stage that fails on the source
FirstError(src) == FirstErrorLexed(tokenize(src))

\* the stages in their order: a stage is at work only on a source the
\* stages before it accept
StagesInOrder(first) ==
    /\ pc \in ParserPcs \cup AnalyzerPcs \cup CodegenPcs \cup RunPcs
          => first.prefix # "Lexer error: "
    /\ pc \in AnalyzerPcs \cup CodegenPcs \cup RunPcs
          => first.prefix # "Parser error: "
    /\ pc \in CodegenPcs \cup RunPcs => first.prefix # "Semantic error: "
    /\ pc \in RunPcs => first = NoFailure

\* what compile_and_run returns, and what main has done
FailFast(first) ==
    /\ returned.done => returned.ok = (first = NoFailure)
    /\ returned.done /\ ~returned.ok => returned.msg = first
    /\ first # NoFailure => stack = <<>> /\ output = <<>> /\ pc \notin RunPcs

\* C18: the stages run in the order lexer, parser, analyzer, code generator,
\* run, each only when the stages before it succeeded; the Err returned is
\* the error of the first failing stage behind that stage's prefix; main is
\* not called on a source a stage fails on
C18_FailFast == StagesInOrder(FirstError(source)) /\ FailFast(FirstError(source))

\* the parser's error is returned on a source the analyzer would reject too
C18_Witness ==
    /\ source = SrcParseFirst
    /\ returned.done /\ ~returned.ok
    /\ returned.msg.prefix = "Parser error: "
    /\ returned.msg.error.msg = "Expected Semicolon"

\* C19: print(e) evaluates e once, prints its value once and has that
\* value, also inside a larger expression and also in a program that
\* defines a function of its own named print (or named as the runtime's
\* print_int)
C19_PrintBuiltin ==
    pc = "done" =>
        \A a \in PrintOperands :
            /\ program \in {NestedPrintProgram(a), UserPrintProgram(a)}
                  => result = Wrap(1 + a) /\ output = <<a>>
            /\ program = DoublePrintProgram(a) => result = a /\ output = <<a, a>>
            /\ program = PrintIntProgram(a) => result = a /\ output = <<a>>

\* C20: the module exists while the code generator compiles, main's code
\* pointer is taken and main runs on the finalized module, and the module is
\* dropped only when compile_and_run has returned
C20_ModuleLifetime ==
    /\ jit = "none" => cg = CgIdle /\ stack = <<>>
    /\ pc \in {"declare", "define", "finalize"} => jit = "building"
    /\ pc \in {"compiled", "run", "done"} => jit = "finalized"
    /\ stack # <<>> => jit = "finalized"
    /\ jit = "dropped" => pc = "returned" /\ stack = <<>>

\* main has run and printed, and the module is dropped behind its return
C20_Witness ==
    /\ jit = "dropped"
    /\ returned.done /\ returned.ok
    /\ output # <<>>

\* the identifier an expression begins with, "" if it begins otherwise
RECURSIVE Leftmost(_)
Leftmost(e) ==
    CASE e.kind = "Binary" -> Leftmost(e.left)
      [] e.kind \in {"Variable", "Call"} -> e.name
      [] OTHER -> ""

\* the accepted input is  func f ( ) { IDENT ..
LeadingIdentifier ==
    /\ pc = "parsed"
    /\ KindAt(tokens, 3) = "LParen" /\ KindAt(tokens, 4) = "RParen"
    /\ KindAt(tokens, 5) = "LBrace" /\ KindAt(tokens, 6) = "Ident"

FirstStatement == program[1].body[1]

\* C21: a statement that begins with an identifier is an Assignment to it
\* when `=` follows, and else an expression statement whose expression
\* begins with that identifier; the cursor the expression is parsed from is
\* the index of the identifier
C21_IdentifierLookahead ==
    /\ LeadingIdentifier /\ KindAt(tokens, 7) = "Assign"
          => FirstStatement.kind = "Assignment"
             /\ FirstStatement.name = tokens[6].typ.name
    /\ LeadingIdentifier /\ KindAt(tokens, 7) # "Assign"
          => FirstStatement.kind = "ExprStmt"
             /\ Leftmost(FirstStatement.expr) = tokens[6].typ.name
    /\ \A cur \in 0..(Len(tokens) - 1) : statement_start(tokens, cur) = cur
    /\ tokens \in {TokensOf(types) : types \in StatementInputs} => pc # "parse_err"

\* x == 1; is the expression statement of x == 1
C21_Witness ==
    /\ pc = "parsed"
    /\ tokens = TokensOf(MainTokens(<<TIdent("x"), TKind("Eq"), TNumber(1),
                                      TKind("Semicolon")>>))
    /\ program = <<Function("main", <<>>,
                            <<ExprStmt(Binary("Eq", Variable("x"), Number(1)))>>)>>

(***************************************************************************)
(* SemanticAnalyzer::analyze and then CodeGenerator::compile, as           *)
(* compile_and_run chains them (lib.rs), on programs given as trees.       *)
(***************************************************************************)
\* depth of the nesting of if, else and while of the nesting family
MaxNest == 2

\* nesting family: a Return under every nesting of if, if/else and while
RECURSIVE Nest(_)
\* the statements of inner, and each under an if, an if/else and a while
NestOf(inner) ==
    inner
    \cup {If(Number(1), <<s>>, <<>>) : s \in inner}
    \cup {If(Number(1), <<s>>, << <<t>> >>) : s \in inner, t \in Nest(0)}
    \cup {While(Number(0), <<s>>) : s \in inner}
Nest(d) == IF d = 0 THEN {Return(Number(1))} ELSE NestOf(Nest(d - 1))
NestBodies ==
    {<<s>> : s \in Nest(MaxNest)}
    \cup {<<s, t>> : s \in Nest(MaxNest), t \in Nest(1)}
    \cup {<<If(Number(1), <<s>>, << <<t>> >>)>> : s \in Nest(1), t \in Nest(1)}
    \cup {<<>>, <<If(Number(1), <<>>, <<>>)>>, <<If(Number(1), <<>>, << <<>> >>)>>,
          <<While(Number(0), <<>>)>>}
NestPrograms == {Main(b) : b \in NestBodies}

\* a loop in a loop, with statements before, between and behind
NestedLoops ==
    Main(<<VarDecl("i", Number(0)),
           While(Binary("Lt", Variable("i"), Number(2)),
                 <<VarDecl("j", Number(0)),
                   While(Binary("Lt", Variable("j"), Number(2)),
                         <<Assignment("j", Binary("Add", Variable("j"), Number(1)))>>),
                   Assignment("i", Binary("Add", Variable("i"), Number(1)))>>),
           Return(Variable("i"))>>)

\* forward, recursive and mutually recursive calls, of several arities
CallForward ==
    <<Function("main", <<>>, <<Return(Call("g", <<Number(1), Number(2)>>))>>),
      Function("f", <<"a">>, <<Return(Variable("a"))>>),
      Function("g", <<"a", "b">>, <<Return(Call("f", <<Variable("b")>>))>>)>>
CallMutual ==
    <<Function("main", <<>>, <<Return(Call("even", <<Number(2)>>))>>),
      Function("even", <<"n">>,
               <<If(Variable("n"),
                    <<Return(Call("odd", <<Binary("Sub", Variable("n"), Number(1)),
                                           Number(0)>>))>>, <<>>),
                 Return(Number(1))>>),
      Function("odd", <<"n", "r">>,
               <<If(Variable("n"),
                    <<Return(Call("even", <<Binary("Sub", Variable("n"), Number(1))>>))>>,
                    <<>>),
                 Return(Variable("r"))>>)>>

\* names of one function, or of an inner block, used where they are not in
\* scope, and used where they are
LeakPrograms ==
    {<<Function("f", <<"x">>, <<VarDecl("y", Number(1))>>), Function("main", <<>>, b)>> :
        b \in {<<Return(Variable("x"))>>, <<Return(Variable("y"))>>,
               <<Assignment("x", Number(1))>>, <<Assignment("y", Number(1))>>,
               <<VarDecl("x", Call("f", <<Number(1)>>)),
                 Assignment("x", Variable("x"))>>,
               <<If(Number(1), <<VarDecl("y", Number(1))>>, <<>>),
                 Return(Variable("y"))>>,
               <<If(Number(1), <<VarDecl("y", Number(1)), Return(Variable("y"))>>,
                    <<>>)>>,
               <<Return(Call("f", <<Number(1)>>))>>,
               <<Return(Call("h", <<Number(1)>>))>>}}

CompilePrograms ==
    SemPrograms \cup NestPrograms \cup LeakPrograms \cup Scenarios \cup ShadowPrograms
    \cup PrintPrograms \cup {NestedLoops, CallForward, CallMutual, CallRecursive}

InitCompile ==
    /\ program \in CompilePrograms
    /\ pc = "collect"
    /\ an = AnNew
    /\ cg = CgIdle
    /\ stack = <<>>
    /\ output = <<>>
    /\ result = 0
    /\ source = <<>>
    /\ lexer = Lexer_new
    /\ tokens = <<>>
    /\ error = NoError
    /\ jit = "none"
    /\ returned = NotReturned

NextCompile ==
    \/ CollectSignature
    \/ CheckMain
    \/ AnalyzeFunction
    \/ AnalyzeOk
    \/ NewCodeGenerator
    \/ DeclareFunction
    \/ CompileFunction
    \/ Finalize

SpecCompile == InitCompile /\ [][NextCompile]_vars

\* the number of While statements of a block, nested ones included
RECURSIVE Whiles(_, _)
WhilesIn(stmt) ==
    CASE stmt.kind = "While" -> 1 + Whiles(stmt.body, 1)
      [] stmt.kind = "If" ->
            Whiles(stmt.then_block, 1)
            + (IF stmt.else_block = <<>> THEN 0 ELSE Whiles(stmt.else_block[1], 1))
      [] OTHER -> 0
Whiles(block, i) ==
    IF i > Len(block) THEN 0 ELSE WhilesIn(block[i]) + Whiles(block, i + 1)

\* the positions in the builder's log of: a jump to b, a seal of b, a switch
\* to b, a brif of block b to the blocks t and e
JumpsTo(f, b) ==
    {k \in DOMAIN f.events :
        f.events[k].ev = "ins" /\ f.events[k].op = "jump" /\ f.events[k].to = <<b>>}
SealsOf(f, b) ==
    {k \in DOMAIN f.events : f.events[k].ev = "seal" /\ f.events[k].block = b}
SwitchesTo(f, b) ==
    {k \in DOMAIN f.events : f.events[k].ev = "switch" /\ f.events[k].block = b}
BranchesOf(f, b, t, e) ==
    {k \in DOMAIN f.events :
        /\ f.events[k].ev = "ins" /\ f.events[k].op = "brif"
        /\ f.events[k].block = b /\ f.events[k].to = <<t, e>>}

\* the loop l of f is lowered in the order: jump to the header, switch to
\* it, the condition in the header, brif to body and exit, switch to the
\* body and seal it, the body, jump to the header, seal the header, switch
\* to the exit and seal it
WhileOrder(f, l) ==
    \E j1 \in JumpsTo(f, l.header), j2 \in JumpsTo(f, l.header),
       c \in BranchesOf(f, l.header, l.body, l.exit) :
        /\ JumpsTo(f, l.header) = {j1, j2} /\ j1 < j2
        /\ SwitchesTo(f, l.header) = {j1 + 1}
        /\ j1 + 1 < c
        /\ \A k \in (j1 + 2)..c :
              f.events[k].ev = "ins" /\ f.events[k].block = l.header
        /\ SwitchesTo(f, l.body) = {c + 1} /\ SealsOf(f, l.body) = {c + 2}
        /\ c + 2 < j2
        /\ SealsOf(f, l.header) = {j2 + 1}
        /\ SwitchesTo(f, l.exit) = {j2 + 2} /\ SealsOf(f, l.exit) = {j2 + 3}

\* C22: every While, nested ones included, is lowered with its header
\* sealed only behind both jumps to it: the jump into the header, the
\* condition and the branch in the header, the body, the jump back, and only
\* then the seal of the header; the body and the exit block are sealed as
\* they are entered
C22_WhileSealOrder ==
    \A n \in DOMAIN cg.module :
        /\ Len(cg.module[n].loops) = Whiles(program[n].body, 1)
        /\ \A i \in DOMAIN cg.module[n].loops :
              WhileOrder(cg.module[n], cg.module[n].loops[i])

\* a loop in a loop is compiled
C22_Witness ==
    /\ pc = "compiled"
    /\ program = NestedLoops
    /\ Len(cg.module[1].loops) = 2
    /\ cg.module[1].loops[1].header > cg.module[1].loops[2].header

\* the names called in an expression, a statement, a block
RECURSIVE Callees(_)
RECURSIVE CalleesOfBlock(_, _)
CalleesOfArgs(args) == UNION {Callees(args[k]) : k \in DOMAIN args}
Callees(e) ==
    CASE e.kind = "Binary" -> Callees(e.left) \cup Callees(e.right)
      [] e.kind = "Unary" -> Callees(e.operand)
      [] e.kind = "Call" -> {e.name} \cup CalleesOfArgs(e.args)
      [] OTHER -> {}
CalleesOfStatement(stmt) ==
    CASE stmt.kind \in {"VarDecl", "Assignment", "Return"} -> Callees(stmt.value)
      [] stmt.kind = "ExprStmt" -> Callees(stmt.expr)
      [] stmt.kind = "While" ->
            Callees(stmt.condition) \cup CalleesOfBlock(stmt.body, 1)
      [] stmt.kind = "If" ->
            Callees(stmt.condition) \cup CalleesOfBlock(stmt.then_block, 1)
            \cup (IF stmt.else_block = <<>> THEN {}
                  ELSE CalleesOfBlock(stmt.else_block[1], 1))
CalleesOfBlock(block, i) ==
    IF i > Len(block) THEN {}
    ELSE CalleesOfStatement(block[i]) \cup CalleesOfBlock(block, i + 1)

\* function i of the program is declared: its name has a handle of its own,
\* declared with one return and as many parameters as the function has
Declared(i) ==
    /\ program[i].name \in DOMAIN cg.functions
    /\ cg.functions[program[i].name] = i
    /\ i \in DOMAIN cg.signatures
    /\ cg.signatures[i] = Signature(Len(program[i].params), 1)

\* the call instructions of f to a handle of the module
CallsOf(f) ==
    UNION {{f.blocks[b][k] : k \in {k \in DOMAIN f.blocks[b] :
                                      /\ f.blocks[b][k].op = "call"
                                      /\ f.blocks[b][k].cc = ""}} :
           b \in DOMAIN f.blocks}

\* the handles the calls in a body are to resolve to: those of the names
\* called, and for print that of a function named print_int if there is one
HandlesOf(names) ==
    {cg.functions[n] : n \in names \ {"print"}}
    \cup (IF "print" \in names /\ "print_int" \in DOMAIN cg.functions
          THEN {cg.functions["print_int"]} ELSE {})

\* C23: every function is declared, with one return and exactly its number
\* of parameters on a signature that is empty before, and its handle is
\* recorded, before any body is lowered; so every call in a body, to a
\* function defined earlier, later, or to the caller itself, is a call of the
\* callee's handle with the callee's number of arguments
C23_DeclaredBeforeBodies ==
    /\ cg.signature = Signature(0, 0)
    /\ pc = "declare" => cg.module = <<>>
    /\ pc = "declare" => \A i \in 1..(cg.i - 1) : Declared(i)
    /\ pc \in {"define", "finalize", "compiled"} \/ cg.module # <<>>
          => \A i \in DOMAIN program : Declared(i)
    /\ \A n \in DOMAIN cg.module :
          /\ {c.imm : c \in CallsOf(cg.module[n])}
                = HandlesOf(CalleesOfBlock(program[n].body, 1))
          /\ \A c \in CallsOf(cg.module[n]) :
                /\ c.imm \in DOMAIN program
                /\ Len(c.args) = Len(program[c.imm].params)
                /\ cg.signatures[c.imm] = Signature(Len(c.args), 1)

\* even, defined before odd, calls odd with its two arguments, and odd
\* calls even back
C23_Witness ==
    /\ pc = "compiled"
    /\ program = CallMutual
    /\ \E c \in CallsOf(cg.module[2]) : c.imm = 3 /\ Len(c.args) = 2
    /\ \E c \in CallsOf(cg.module[3]) : c.imm = 2 /\ Len(c.args) = 1

\* main calls f, declares x, reads it and assigns to it, behind a function f
\* that has a parameter x and a variable y of its own
LeakAccepted ==
    <<Function("f", <<"x">>, <<VarDecl("y", Number(1))>>),
      Function("main", <<>>,
               <<VarDecl("x", Call("f", <<Number(1)>>)),
                 Assignment("x", Variable("x"))>>)>>

\* C24: in a program the analyzer accepted, the code generator finds every
\* name it looks up: no Variable read, Assignment or Call of a function
\* other than print unwraps a lookup that found nothing, with the variable
\* map empty at the start of each function
C24_LookupsSucceed ==
    /\ \A n \in DOMAIN cg.module : ~cg.module[n].panic
    /\ pc = "define" /\ cg.i <= Len(program)
          => ~compile_function(cg, program[cg.i]).panic
    /\ pc \in {"declare", "define", "finalize", "compiled", "codegen_err"}
          => analyze(program) = NoErr

\* an accepted program with a read, an assignment and a call is compiled
C24_Witness ==
    /\ pc = "compiled"
    /\ program = LeakAccepted
    /\ Len(cg.module) = 2

\* the instructions that end a block
Terminators == {"brif", "jump", "return"}

\* the positions in the builder's log of the instructions appended to block
\* b, and of the terminators among them
InstructionsOf(f, b) ==
    {k \in DOMAIN f.events : f.events[k].ev = "ins" /\ f.events[k].block = b}
TerminatorsOf(f, b) ==
    {k \in InstructionsOf(f, b) : f.events[k].op \in Terminators}

\* block b of f is sealed once, and one terminator is appended to it, as
\* the last of its instructions
WellFormedBlock(f, b) ==
    /\ Cardinality(SealsOf(f, b)) = 1
    /\ Cardinality({k \in DOMAIN f.sealed : f.sealed[k] = b}) = 1
    /\ Cardinality(TerminatorsOf(f, b)) = 1
    /\ \A t \in TerminatorsOf(f, b) : \A k \in InstructionsOf(f, b) : k <= t
    /\ f.blocks[b] # <<>>
    /\ f.blocks[b][Len(f.blocks[b])].op \in Terminators
    /\ \A k \in 1..(Len(f.blocks[b]) - 1) : f.blocks[b][k].op \notin Terminators

\* the number of If and While statements of a block, nested ones included
RECURSIVE Branchings(_, _)
BranchingsIn(stmt) ==
    CASE stmt.kind = "While" -> 1 + Branchings(stmt.body, 1)
      [] stmt.kind = "If" ->
            1 + Branchings(stmt.then_block, 1)
            + (IF stmt.else_block = <<>> THEN 0 ELSE Branchings(stmt.else_block[1], 1))
      [] OTHER -> 0
Branchings(block, i) ==
    IF i > Len(block) THEN 0 ELSE BranchingsIn(block[i]) + Branchings(block, i + 1)

\* C25: when a function is finalized, each block created for it (the entry
\* block and three for every If and While) has been sealed exactly once and
\* holds exactly one terminator, a brif, a jump or the return, which is the
\* last instruction appended to the block
C25_BlocksSealedAndTerminated ==
    \A n \in DOMAIN cg.module :
        /\ Len(cg.module[n].blocks) = 1 + 3 * Branchings(program[n].body, 1)
        /\ \A b \in DOMAIN cg.module[n].blocks : WellFormedBlock(cg.module[n], b)
        /\ \A k \in DOMAIN cg.module[n].events :
              cg.module[n].events[k].block \in DOMAIN cg.module[n].blocks

\* a return in both branches of an if/else in a loop, and a return behind
NestedReturns ==
    Main(<<While(Number(0),
                 <<If(Number(1), <<Return(Number(1))>>, << <<Return(Number(1))>> >>)>>),
           Return(Number(1))>>)

C25_Witness ==
    /\ pc = "compiled"
    /\ program = NestedReturns
    /\ Len(cg.module[1].blocks) = 7
    /\ Len(cg.module[1].sealed) = 7

\* the index of the Eof token, the last of the sequence
EofIndex(toks) == Len(toks) - 1

\* a parsing function called at cur ends at r: not before cur, not behind
\* the Eof token, and behind cur when it ends with Ok
Consumes(toks, cur, r) ==
    /\ cur <= r.current
    /\ r.current <= EofIndex(toks)
    /\ r.ok => cur < r.current

\* as Consumes, for the functions that may end with Ok where they began
Advances(toks, cur, r) ==
    /\ cur <= r.current
    /\ r.current <= EofIndex(toks)

\* the cursors the loop of parse_block may call parse_statement at: behind
\* a `{`, a `;` or a `}`, where the loop goes on
StatementStarts(toks) ==
    {cur \in 1..EofIndex(toks) :
        /\ KindAt(toks, cur) \in {"LBrace", "Semicolon", "RBrace"}
        /\ ~check(toks, cur, "RBrace") /\ ~parser_is_at_end(toks, cur)}

\* C26: Parser::parse ends on every token sequence that ends with Eof: each
\* turn of the loops of parse and parse_block, and each operand, argument
\* and parameter of the loops over operators and commas, consumes a token or
\* is an error; no function leaves the cursor behind the Eof token or before
\* the cursor it was called at; the cursor moves back only by the one token
\* of the look ahead of a statement, behind the advance over the identifier
\* (the cursors of an input are gone through once parse has run on it)
C26_ParseTerminates ==
    /\ KindAt(tokens, Len(tokens)) = "Eof"
    /\ Advances(tokens, 0, parse(tokens))
    /\ parse(tokens).ok => parse(tokens).current = EofIndex(tokens)
    /\ \A cur \in IF pc = "lexed" THEN {} ELSE 0..EofIndex(tokens) :
          /\ parser_advance(tokens, cur) \in {cur, cur + 1}
          /\ parser_advance(tokens, cur) = cur => cur = EofIndex(tokens)
          /\ ~parser_is_at_end(tokens, cur)
                => /\ Consumes(tokens, cur, parse_function(tokens, cur))
                   /\ Consumes(tokens, cur, parse_expr(tokens, cur))
                   /\ Consumes(tokens, cur, parse_block(tokens, cur))
          /\ Advances(tokens, cur, parse_param_list(tokens, cur))
          /\ Advances(tokens, cur, parse_arg_list(tokens, cur))
    /\ \A cur \in IF pc = "lexed" THEN {} ELSE StatementStarts(tokens) :
          /\ Consumes(tokens, cur, parse_statement(tokens, cur))
          /\ statement_start(tokens, cur) \in {cur}

\* x + 1; is parsed to the end: the look ahead went back over x, and the
\* loops over the statements and over the operators went on
C26_Witness ==
    /\ pc = "parsed"
    /\ tokens = TokensOf(MainTokens(<<TIdent("x"), TKind("Plus"), TNumber(1),
                                      TKind("Semicolon")>>))
    /\ parse(tokens).current = EofIndex(tokens)
    /\ 5 \in StatementStarts(tokens)

============================================================================
